---- MODULE Spec2Model ----
(* State-machine model of DynamicModel (src/dynamic_model.py): the connection  *)
(* broker (connect / connect_pool / close), the thread-bound transaction and   *)
(* savepoint scopes, the auto-committing cursor scope of every operation, and  *)
(* the TTL schema cache.  The store is a PostgreSQL session per connection:    *)
(* uncommitted work, a savepoint stack and the "transaction aborted" flag.     *)
EXTENDS Integers, Sequences, FiniteSets, TLC

\* ---------------------------------------------------------------- bounds
MaxConnIds == 5        \* connection objects ever created
MaxCalls == 4          \* scopes entered plus rows written over a run
MaxClock == 1          \* clock ticks while transactions run
MaxCacheClock == 3     \* clock ticks while the schema cache is exercised
MaxTtl == 2            \* largest TTL passed to set_schema_cache_ttl
MaxHooks == 3          \* hooks ever registered
MaxWrites == 2         \* write calls started over a run
MaxPipeHooks == 2      \* hooks registered before the write calls of a run
MaxMigrations == 2     \* migrations registered with add_migration

\* ---------------------------------------------------------------- constants
DefaultTtl == 300      \* _schema_cache_ttl_seconds
Threads == {"t1", "t2"}
Nesting == {"t1"}       \* the threads that nest scopes; the others run flat transactions
PoolSizes == {1, 2}    \* the maxconn values passed to connect_pool
Columns == {"id", "a", "b"}
None == 0
ConnIds == 1..MaxConnIds
NoPool == [base |-> 0, max |-> 0, used |-> {}]
NoOp == [conn |-> None, err |-> FALSE, w |-> 0]
NoEntry == [present |-> FALSE, ts |-> 0, cols |-> {}]
NoTyped == [done |-> FALSE, value |-> "None", explicit |-> "", given |-> FALSE,
            infer |-> TRUE, typ |-> ""]
WriteCols == {"a"}        \* the columns a write carries besides id
WriteValues == {"int", "str"}
NoCall == [op |-> "none", pc |-> "idle", col |-> "", typ |-> "", missing |-> FALSE,
           conn |-> 0, changed |-> FALSE, refilled |-> FALSE, w |-> 0,
           log |-> <<>>]
Tables == {"t", "u"}
HookKeys == {"*"} \cup Tables
NoHooks == [k \in HookKeys |-> <<>>]
NoHookRun == [done |-> FALSE, kind |-> "", table |-> "", ran |-> <<>>, err |-> FALSE,
              bad |-> {}]
NoLookup == [done |-> FALSE, ttl |-> 0, hit |-> FALSE, had |-> FALSE, age |-> 0,
             prev |-> {}, cols |-> {}, store |-> {}]
NoEffect == [kind |-> "none", ver |-> 0 - 1, del |-> "keep"]
NoEnt == [pc |-> "none", cols |-> {}, version |-> 0 - 1, deleted |-> "unset", at |-> 0 - 1,
          tries |-> 0, ret |-> "none"]
NoFields == [done |-> FALSE, op |-> "", given |-> 0, hooked |-> 0, written |-> 0, after |-> 0]
NoGoc == [pc |-> "none", created |-> FALSE]
NoMig == [pc |-> "none", n |-> 0, i |-> 0, done |-> {}, table |-> "absent", failed |-> 0,
          ret |-> "none"]
NoStream == [pc |-> "none", conn |-> 0]
NoTrip == [done |-> FALSE, value |-> "None", had |-> "", explicit |-> "", given |-> FALSE,
           infer |-> TRUE, typ |-> "", err |-> FALSE, loaded |-> "None"]
Empty == [rows |-> {}, cols |-> {}]
CleanConn == [pending |-> Empty, sps |-> <<>>, failed |-> FALSE]

VARIABLES
    connection,    \* cls._connection: None or a connection id
    pool,          \* cls._pool: NoPool or [base, max, used]
    nextConn,      \* next fresh connection id
    closedConns,   \* connections closed by close()
    lastCall,      \* the last configuration call made
    localConn,     \* cls._local.conn per thread
    depth,         \* cls._local.depth per thread
    frames,        \* per thread: the open transaction()/savepoint() scopes
    exc,           \* per thread: the exception propagating, or "none"
    op,            \* per thread: the _get_cursor scope in flight outside a transaction
    committed,     \* the store: committed rows and columns
    conns,         \* per connection: the session state in the store
    now,           \* the clock (time.time())
    calls,         \* scopes entered plus rows written so far; names the next row
    txW,           \* per thread: rows written inside its open transaction
    foreignUse,    \* some thread used a connection bound to another thread's transaction
    schemaCache,   \* cls._schema_cache entry of the table
    ttl,           \* cls._schema_cache_ttl_seconds
    lookup,        \* what the last inspect_schema call saw and returned
    typed,         \* what the last column-type decision of a write path was given and chose
    beforeHooks,   \* cls._before_hooks: per key the hooks in registration order
    afterHooks,    \* cls._after_hooks
    nextHook,      \* the next hook to be registered (hooks are numbered as registered)
    hookRun,       \* what the last run of a hook list did
    call,          \* per thread: the write call in progress, or the last one
    colType,       \* per column: the type it was given when it was last added
    started,       \* how many write calls have been started
    effect,        \* per row token: what the statement that wrote it did to the row
    ent,           \* per thread: its Entity instance of the row (_columns, _data) and its last result
    fields,        \* the field map of the last create / bulk_create: given, written, handed on
    goc,           \* per thread: its get_or_create call
    mig,           \* cls._migrations and the run_migrations call in progress
    stream,        \* per thread: its stream_query generator
    logger,        \* cls._logger: the log sink installed with set_logger
    trip           \* the last create-and-load round trip of one field

vars == <<connection, pool, nextConn, closedConns, lastCall, localConn, depth,
          frames, exc, op, committed, conns, now, calls, txW,
          foreignUse,
          schemaCache, ttl, lookup,
          typed, beforeHooks, afterHooks, nextHook, hookRun,
          call, colType, started,
          effect, ent, fields, goc, mig, stream, logger, trip>>

cfgVars == <<connection, pool, nextConn, closedConns, lastCall>>
thrVars == <<localConn, depth, frames, exc, op, txW, foreignUse>>
dbVars == <<committed, conns, calls>>
cacheVars == <<schemaCache, ttl, lookup>>
hookVars == <<beforeHooks, afterHooks, nextHook, hookRun>>
pipeVars == <<call, colType, started>>
sideVars == <<fields, goc, mig, stream, logger, trip>>
extVars == <<effect, ent, sideVars>>
wrVars == <<typed, extVars, hookVars, pipeVars>>

Max(a, b) == IF a >= b THEN a ELSE b

\* ---------------------------------------------------------------- the store
Join(x, y) == [rows |-> x.rows \cup y.rows, cols |-> x.cols \cup y.cols]

\* What COMMIT makes durable: nothing when the transaction is aborted.
CommitSet(cs) == IF cs.failed THEN Empty ELSE cs.pending

\* What a statement on the session sees.
Visible(cs) == Join(committed, cs.pending)

\* Index of the most recent savepoint of that name, 0 when there is none.
LastSp(sps, name) ==
    LET S == {i \in 1..Len(sps) : sps[i].name = name}
    IN IF S = {} THEN 0 ELSE CHOOSE i \in S : \A j \in S : j <= i

\* cur.execute of a writing statement; out is what happens to it.
PgExecute(cs, w, out) ==
    IF cs.failed THEN [cs |-> cs, err |-> TRUE, w |-> 0]
    ELSE IF out = "dberr"
    THEN [cs |-> [cs EXCEPT !.failed = TRUE], err |-> TRUE, w |-> 0]
    ELSE [cs |-> [cs EXCEPT !.pending.rows = @ \cup {w}], err |-> out # "ok", w |-> w]

PgSavepoint(cs, name) ==
    IF cs.failed THEN [cs |-> cs, err |-> TRUE]
    ELSE [cs |-> [cs EXCEPT !.sps = Append(@, [name |-> name, snap |-> cs.pending])],
          err |-> FALSE]

PgRollbackTo(cs, name) ==
    LET i == LastSp(cs.sps, name)
    IN IF i = 0 THEN [cs |-> [cs EXCEPT !.failed = TRUE], err |-> TRUE]
       ELSE [cs |-> [pending |-> cs.sps[i].snap, sps |-> SubSeq(cs.sps, 1, i),
                     failed |-> FALSE],
             err |-> FALSE]

PgRelease(cs, name) ==
    LET i == LastSp(cs.sps, name)
    IN IF cs.failed THEN [cs |-> cs, err |-> TRUE]
       ELSE IF i = 0 THEN [cs |-> [cs EXCEPT !.failed = TRUE], err |-> TRUE]
       ELSE [cs |-> [cs EXCEPT !.sps = SubSeq(cs.sps, 1, i - 1)], err |-> FALSE]

\* ---------------------------------------------------------------- configuration
Unconfigured == connection = None /\ pool = NoPool

\* connect() that forgets to drop the pool
ConnectSetsKeepsPool(id) == [connection |-> id, pool |-> pool]

\* What connect() assigns: the new connection, and no pool.
ConnectSets(id) == [connection |-> id, pool |-> NoPool]

\* connect(**db_params): psycopg2.connect may raise, and then nothing is assigned.
Connect ==
    /\ nextConn <= MaxConnIds
    /\ \E ok \in BOOLEAN :
         IF ok
         THEN /\ connection' = ConnectSets(nextConn).connection
              /\ pool' = ConnectSets(nextConn).pool
              /\ nextConn' = nextConn + 1
         ELSE UNCHANGED <<connection, pool, nextConn>>
    /\ lastCall' = "connect"
    /\ UNCHANGED <<wrVars, closedConns, thrVars, dbVars, cacheVars, now>>

ConnectPoolSets(base, maxconn) ==
    [connection |-> None, pool |-> [base |-> base, max |-> maxconn, used |-> {}]]

\* connect_pool(minconn, maxconn, **db_params)
ConnectPool ==
    /\ \E maxconn \in PoolSizes, ok \in BOOLEAN :
         /\ nextConn + maxconn - 1 <= MaxConnIds
         /\ IF ok
            THEN /\ pool' = ConnectPoolSets(nextConn - 1, maxconn).pool
                 /\ connection' = ConnectPoolSets(nextConn - 1, maxconn).connection
                 /\ nextConn' = nextConn + maxconn
            ELSE UNCHANGED <<connection, pool, nextConn>>
    /\ lastCall' = "connect_pool"
    /\ UNCHANGED <<wrVars, closedConns, thrVars, dbVars, cacheVars, now>>

PoolConns(p) == (p.base + 1)..(p.base + p.max)

\* What close() leaves assigned; poolRaises: closeall() raised and the
\* exception left the method before the single connection was looked at.
CloseSets(poolRaises) ==
    [pool |-> NoPool,
     connection |-> IF pool # NoPool /\ poolRaises THEN connection ELSE None]

\* close()
Close ==
    /\ \E poolRaises \in BOOLEAN :
         /\ pool' = CloseSets(poolRaises).pool
         /\ connection' = CloseSets(poolRaises).connection
         /\ closedConns' = closedConns
                \cup (IF pool # NoPool THEN PoolConns(pool) ELSE {})
                \cup (IF connection # None /\ ~(pool # NoPool /\ poolRaises)
                      THEN {connection} ELSE {})
    /\ lastCall' = "close"
    /\ UNCHANGED <<wrVars, nextConn, thrVars, dbVars, cacheVars, now>>

\* ---------------------------------------------------------------- initial state
Init ==
    /\ connection = None
    /\ pool = NoPool
    /\ nextConn = 1
    /\ closedConns = {}
    /\ lastCall = "none"
    /\ localConn = [t \in Threads |-> None]
    /\ depth = [t \in Threads |-> 0]
    /\ frames = [t \in Threads |-> <<>>]
    /\ exc = [t \in Threads |-> "none"]
    /\ op = [t \in Threads |-> NoOp]
    /\ committed = [rows |-> {}, cols |-> {"id"}]
    /\ conns = [c \in ConnIds |-> CleanConn]
    /\ now = 0
    /\ calls = 0
    /\ txW = [t \in Threads |-> {}]
    /\ foreignUse = FALSE
    /\ schemaCache = NoEntry
    /\ ttl = DefaultTtl
    /\ lookup = NoLookup
    /\ typed = NoTyped
    /\ beforeHooks = NoHooks
    /\ afterHooks = NoHooks
    /\ nextHook = 1
    /\ hookRun = NoHookRun
    /\ call = [t \in Threads |-> NoCall]
    /\ colType = [c \in Columns |-> IF c = "id" THEN "SERIAL" ELSE ""]
    /\ started = 0
    /\ effect = [w \in 1..MaxCalls |-> NoEffect]
    /\ ent = [t \in Threads |-> NoEnt]
    /\ fields = NoFields
    /\ goc = [t \in Threads |-> NoGoc]
    /\ mig = NoMig
    /\ stream = [t \in Threads |-> NoStream]
    /\ logger = "none"
    /\ trip = NoTrip

\* ---------------------------------------------------------------- connections
InTransaction(t) == localConn[t] # None

\* Some other thread has this connection bound as its transaction's connection.
Foreign(t, c) == \E u \in Threads \ {t} : localConn[u] = c

PoolFree(p) == PoolConns(p) \ p.used

\* SimpleConnectionPool.getconn: a connection not in use, or PoolError when all
\* maxconn connections are checked out.
GetConn(p) ==
    IF PoolFree(p) = {} THEN [conn |-> None, err |-> "PoolError", pool |-> p]
    ELSE LET c == CHOOSE x \in PoolFree(p) : \A y \in PoolFree(p) : x <= y
         IN [conn |-> c, err |-> "none", pool |-> [p EXCEPT !.used = @ \cup {c}]]

\* a _current_connection() that does not look at the thread's bound connection
CurrentConnectionUnbound(t) ==
    IF Unconfigured THEN [conn |-> None, err |-> "RuntimeError", pool |-> pool]
    ELSE IF pool # NoPool THEN GetConn(pool)
    ELSE [conn |-> connection, err |-> "none", pool |-> pool]

\* _current_connection()
CurrentConnection(t) ==
    IF InTransaction(t) THEN [conn |-> localConn[t], err |-> "none", pool |-> pool]
    ELSE IF Unconfigured THEN [conn |-> None, err |-> "RuntimeError", pool |-> pool]
    ELSE IF pool # NoPool THEN GetConn(pool)
    ELSE [conn |-> connection, err |-> "none", pool |-> pool]

\* a release that never gives the connection back
ReleaseConnectionNever(p, inTx, c) == p

\* _release_connection(conn), with _in_transaction() as the caller's thread sees it
ReleaseConnection(p, inTx, c) ==
    IF p # NoPool /\ ~inTx THEN [p EXCEPT !.used = @ \ {c}] ELSE p

\* ---------------------------------------------------------------- scopes
NoName == [ms |-> 0 - 1, id |-> 0]

\* The savepoint name of a nested transaction(): sp_<ms>_<id(conn)>;
\* of savepoint() without a name: sp_<ms>.
SavepointName(kind, c) ==
    IF kind = "tx" THEN [ms |-> now, id |-> c] ELSE [ms |-> now, id |-> 0]

Frame(kind, outer, c, name) ==
    [kind |-> kind, outer |-> outer, conn |-> c, name |-> name, ws |-> {}]

Top(t) == frames[t][Len(frames[t])]

Raise(t, kind) == [exc EXCEPT ![t] = IF @ = "none" THEN kind ELSE @]

\* a finally block that does not reset the depth of the outermost scope
DepthAfterExitNoReset(outermost, d) == IF outermost THEN d ELSE Max(0, d - 1)

\* _local.depth when a transaction() scope is left (the finally block)
DepthAfterExit(outermost, d) == IF outermost THEN 0 ELSE Max(0, d - 1)

\* Opening a savepoint scope on c: SAVEPOINT name, and on failure the except
\* block's ROLLBACK TO SAVEPOINT name before the error propagates.
OpenSavepoint(cs, name) ==
    LET s == PgSavepoint(cs, name)
    IN IF s.err THEN [cs |-> PgRollbackTo(s.cs, name).cs, err |-> TRUE] ELSE s

\* Leaving a savepoint scope: RELEASE on normal exit (falling into the except
\* block when it fails), ROLLBACK TO on an exception.
CloseSavepoint(cs, name, raised) ==
    IF raised THEN [cs |-> PgRollbackTo(cs, name).cs, err |-> TRUE]
    ELSE LET r == PgRelease(cs, name)
         IN IF r.err THEN [cs |-> PgRollbackTo(r.cs, name).cs, err |-> TRUE] ELSE r

\* with transaction(): entering the scope
TxEnter(t) ==
    /\ exc[t] = "none" /\ op[t] = NoOp
    /\ calls < MaxCalls
    /\ IF Unconfigured
       THEN /\ exc' = Raise(t, "RuntimeError")
            /\ UNCHANGED <<pool, localConn, depth, frames, txW, conns, foreignUse>>
       ELSE IF ~InTransaction(t)
       THEN LET r == CurrentConnection(t)
            IN IF r.err # "none"
               THEN /\ exc' = Raise(t, r.err)
                    /\ UNCHANGED <<pool, localConn, depth, frames, txW, conns, foreignUse>>
               ELSE /\ pool' = r.pool
                    /\ localConn' = [localConn EXCEPT ![t] = r.conn]
                    /\ depth' = [depth EXCEPT ![t] = 1]
                    /\ frames' = [frames EXCEPT ![t] = <<Frame("tx", TRUE, r.conn, NoName)>>]
                    /\ txW' = [txW EXCEPT ![t] = {}]
                    /\ UNCHANGED <<exc, conns, foreignUse>>
       ELSE LET c == localConn[t]
                name == SavepointName("tx", c)
                s == OpenSavepoint(conns[c], name)
            IN /\ conns' = [conns EXCEPT ![c] = s.cs]
               /\ foreignUse' = (foreignUse \/ Foreign(t, c))
               /\ IF s.err
                  THEN /\ exc' = Raise(t, "Error")
                       /\ UNCHANGED <<depth, frames>>
                  ELSE /\ depth' = [depth EXCEPT ![t] = @ + 1]
                       /\ frames' = [frames EXCEPT ![t] = Append(@, Frame("tx", FALSE, c, name))]
                       /\ UNCHANGED exc
               /\ UNCHANGED <<pool, localConn, txW>>
    /\ calls' = calls + IF Len(frames'[t]) > Len(frames[t]) THEN 1 ELSE 0
    /\ UNCHANGED <<wrVars, connection, nextConn, closedConns, lastCall, op, committed, now,
                   cacheVars>>

\* a savepoint() that does what transaction() does
SpEnterAsTransaction(t) == TxEnter(t)

\* with savepoint(): entering the scope
SpEnter(t) ==
    /\ exc[t] = "none" /\ op[t] = NoOp
    /\ calls < MaxCalls
    /\ IF ~InTransaction(t)
       THEN /\ exc' = Raise(t, "RuntimeError")
            /\ UNCHANGED <<frames, conns, foreignUse>>
       ELSE LET c == localConn[t]
                name == SavepointName("sp", c)
                s == OpenSavepoint(conns[c], name)
            IN /\ conns' = [conns EXCEPT ![c] = s.cs]
               /\ foreignUse' = (foreignUse \/ Foreign(t, c))
               /\ IF s.err
                  THEN exc' = Raise(t, "Error") /\ UNCHANGED frames
                  ELSE /\ frames' = [frames EXCEPT ![t] = Append(@, Frame("sp", FALSE, c, name))]
                       /\ UNCHANGED exc
    /\ calls' = calls + IF Len(frames'[t]) > Len(frames[t]) THEN 1 ELSE 0
    /\ UNCHANGED <<wrVars, cfgVars, localConn, depth, op, txW, committed, now, cacheVars>>

Pop(t, merge) ==
    LET n == Len(frames[t])
        rest == SubSeq(frames[t], 1, n - 1)
    IN [frames EXCEPT ![t] =
            IF merge /\ n > 1
            THEN [rest EXCEPT ![n - 1].ws = @ \cup frames[t][n].ws]
            ELSE rest]

\* Leaving the innermost scope of t: normally, or with an exception (one
\* raised in the body now, or one already propagating).
ScopeExit(t, raised) ==
    /\ frames[t] # <<>> /\ op[t] = NoOp
    /\ raised \/ exc[t] = "none"
    /\ LET f == Top(t)
           c == f.conn
       IN /\ foreignUse' = (foreignUse \/ Foreign(t, c))
          /\ IF f.outer
             THEN /\ committed' = IF raised THEN committed
                                  ELSE Join(committed, CommitSet(conns[c]))
                  /\ conns' = [conns EXCEPT ![c] = CleanConn]
                  /\ pool' = ReleaseConnection(pool, InTransaction(t), c)
                  /\ localConn' = [localConn EXCEPT ![t] = None]
                  /\ depth' = [depth EXCEPT ![t] = DepthAfterExit(TRUE, @)]
                  /\ frames' = Pop(t, FALSE)
                  /\ txW' = [txW EXCEPT ![t] = {}]
                  /\ exc' = IF raised THEN Raise(t, "Error") ELSE exc
             ELSE LET r == CloseSavepoint(conns[c], f.name, raised)
                  IN /\ conns' = [conns EXCEPT ![c] = r.cs]
                     /\ depth' = [depth EXCEPT ![t] =
                                     IF f.kind = "tx" THEN DepthAfterExit(FALSE, @) ELSE @]
                     /\ frames' = Pop(t, ~r.err)
                     /\ exc' = IF r.err THEN Raise(t, "Error") ELSE exc
                     /\ UNCHANGED <<committed, pool, localConn, txW>>
    /\ UNCHANGED <<wrVars, connection, nextConn, closedConns, lastCall, op, calls, now,
                   cacheVars>>

\* ---------------------------------------------------------------- operations
\* An operation that writes one row through `with cls._get_cursor()`: the
\* connection is taken and the statement executed.  Inside a transaction that
\* is the whole scope; outside, the commit / rollback and the release follow
\* in OpEnd.
OpBegin(t) ==
    /\ exc[t] = "none" /\ op[t] = NoOp /\ calls < MaxCalls
    /\ \E out \in {"ok", "dberr", "pyerr"} :
         LET r == CurrentConnection(t)
             c == r.conn
             e == PgExecute(conns[c], calls + 1, out)
         IN IF r.err # "none"
            THEN /\ out = "ok"
                 /\ exc' = Raise(t, r.err)
                 /\ UNCHANGED <<pool, op, conns, calls, txW, frames, foreignUse>>
            ELSE /\ conns' = [conns EXCEPT ![c] = e.cs]
                 /\ calls' = IF e.w # 0 THEN calls + 1 ELSE calls
                 /\ foreignUse' = (foreignUse \/ Foreign(t, c))
                 /\ pool' = r.pool
                 /\ IF InTransaction(t)
                    THEN /\ out # "pyerr"
                         /\ exc' = IF e.err THEN Raise(t, "Error") ELSE exc
                         /\ txW' = [txW EXCEPT ![t] = IF e.w # 0 THEN @ \cup {e.w} ELSE @]
                         /\ frames' = [frames EXCEPT ![t][Len(frames[t])].ws =
                                          IF e.w # 0 THEN @ \cup {e.w} ELSE @]
                         /\ UNCHANGED op
                    ELSE /\ op' = [op EXCEPT ![t] = [conn |-> c, err |-> e.err, w |-> e.w]]
                         /\ UNCHANGED <<exc, txW, frames>>
    /\ UNCHANGED <<wrVars, connection, nextConn, closedConns, lastCall, localConn, depth,
                   committed, now, cacheVars>>

\* The end of a _get_cursor scope outside a transaction: commit or rollback,
\* then the finally block's release.
OpEnd(t) ==
    /\ op[t] # NoOp
    /\ LET c == op[t].conn
       IN /\ committed' = IF op[t].err THEN committed
                          ELSE Join(committed, CommitSet(conns[c]))
          /\ conns' = [conns EXCEPT ![c] = CleanConn]
          /\ pool' = ReleaseConnection(pool, InTransaction(t), c)
          /\ foreignUse' = (foreignUse \/ Foreign(t, c))
          /\ exc' = IF op[t].err THEN Raise(t, "Error") ELSE exc
    /\ op' = [op EXCEPT ![t] = NoOp]
    /\ UNCHANGED <<wrVars, connection, nextConn, closedConns, lastCall, localConn, depth,
                   frames, txW, calls, now, cacheVars>>

\* The caller catches the propagating exception.
Catch(t) ==
    /\ exc[t] # "none" /\ op[t] = NoOp
    /\ exc' = [exc EXCEPT ![t] = "none"]
    /\ UNCHANGED <<wrVars, cfgVars, localConn, depth, frames, op, txW, foreignUse, dbVars, now,
                   cacheVars>>

\* time.time() advances
Tick(max) ==
    /\ now < max
    /\ now' = now + 1
    /\ UNCHANGED <<wrVars, cfgVars, thrVars, dbVars, cacheVars>>

Configure == Unconfigured /\ (Connect \/ ConnectPool)

Next ==
    \/ Configure
    \/ Tick(MaxClock)
    \/ \E t \in Threads :
         \/ ((t \in Nesting \/ frames[t] = <<>>) /\ TxEnter(t))
         \/ (t \in Nesting /\ SpEnter(t))
         \/ ScopeExit(t, FALSE)
         \/ ScopeExit(t, TRUE)
         \/ OpBegin(t)
         \/ OpEnd(t)
         \/ Catch(t)

Spec == Init /\ [][Next]_vars

\* One thread nests transaction() and savepoint() scopes while every thread
\* runs operations.
NextNest ==
    \/ Configure
    \/ \E t \in Nesting :
         \/ TxEnter(t) \/ SpEnter(t)
         \/ \E raised \in BOOLEAN : ScopeExit(t, raised)
    \/ \E t \in Threads : OpBegin(t) \/ OpEnd(t) \/ Catch(t)

SpecNest == Init /\ [][NextNest]_vars

\* ---------------------------------------------------------------- schema cache
\* set_schema_cache_ttl(seconds)
SetTtl ==
    /\ \E seconds \in (0 - 1)..MaxTtl : ttl' = Max(0, seconds)
    /\ UNCHANGED <<wrVars, cfgVars, thrVars, dbVars, now, schemaCache, lookup>>

\* _invalidate_schema_cache(table)
Invalidate ==
    /\ schemaCache' = NoEntry
    /\ UNCHANGED <<wrVars, cfgVars, thrVars, dbVars, now, ttl, lookup>>

\* A column added to the table directly against the store, bypassing the library.
DirectAddColumn ==
    /\ \E col \in Columns \ committed.cols :
         committed' = [committed EXCEPT !.cols = @ \cup {col}]
    /\ UNCHANGED <<wrVars, cfgVars, thrVars, conns, calls, now, cacheVars>>

\* an entry still served when its age equals the TTL
CacheFreshInclusive(entry) ==
    entry.present /\ (ttl = 0 \/ (now - entry.ts) <= ttl)

\* inspect_schema: the cached entry is served
CacheFresh(entry) ==
    entry.present /\ (ttl = 0 \/ (now - entry.ts) < ttl)

Looked(hit, cols) ==
    [done |-> TRUE, ttl |-> ttl, hit |-> hit, had |-> schemaCache.present,
     age |-> now - schemaCache.ts, prev |-> schemaCache.cols, cols |-> cols,
     store |-> committed.cols]

\* inspect_schema(table): the cached entry, or the catalog query through
\* _get_cursor (commit and release outside a transaction) and the cache fill.
InspectSchema(t) ==
    /\ exc[t] = "none" /\ op[t] = NoOp
    /\ IF CacheFresh(schemaCache)
       THEN /\ lookup' = Looked(TRUE, schemaCache.cols)
            /\ UNCHANGED <<pool, exc, committed, conns, foreignUse, schemaCache>>
       ELSE LET r == CurrentConnection(t)
                c == r.conn
            IN IF r.err # "none"
               THEN /\ exc' = Raise(t, r.err)
                    /\ UNCHANGED <<pool, committed, conns, foreignUse, schemaCache, lookup>>
               ELSE /\ foreignUse' = (foreignUse \/ Foreign(t, c))
                    /\ pool' = ReleaseConnection(r.pool, InTransaction(t), c)
                    /\ IF conns[c].failed
                       THEN /\ exc' = Raise(t, "Error")
                            /\ UNCHANGED <<schemaCache, lookup>>
                       ELSE /\ schemaCache' = [present |-> TRUE, ts |-> now,
                                               cols |-> Visible(conns[c]).cols]
                            /\ lookup' = Looked(FALSE, Visible(conns[c]).cols)
                            /\ UNCHANGED exc
                    /\ IF InTransaction(t)
                       THEN UNCHANGED <<committed, conns>>
                       ELSE /\ committed' = Join(committed, CommitSet(conns[c]))
                            /\ conns' = [conns EXCEPT ![c] = CleanConn]
    /\ UNCHANGED <<wrVars, connection, nextConn, closedConns, lastCall, localConn, depth,
                   frames, op, txW, calls, now, ttl>>

NextCache ==
    \/ Configure
    \/ Tick(MaxCacheClock)
    \/ SetTtl
    \/ Invalidate
    \/ DirectAddColumn
    \/ \E t \in Threads : InspectSchema(t) \/ Catch(t)

SpecCache == Init /\ [][NextCache]_vars

NextCfg == Connect \/ ConnectPool \/ Close

SpecCfg == Init /\ [][NextCfg]_vars

\* ---------------------------------------------------------------- column types
\* The classes of the Python values a write can carry.
Values == {"None", "bool", "int", "float", "Decimal", "datetime", "date", "dict",
           "list", "bytes", "bytearray", "memoryview", "str", "object"}

\* What column_types can hold for a column: a type, or an empty string.
ExplicitTypes == {"", "INTEGER", "VARCHAR(20)"}

PyNone == "<None>"

\* Python truthiness of a type string
Falsy(typ) == typ = PyNone \/ typ = ""

\* isinstance(v, cls): bool is a subclass of int, datetime a subclass of date.
IsInstance(v, cls) ==
    \/ v = cls
    \/ (v = "bool" /\ cls = "int")
    \/ (v = "datetime" /\ cls = "date")

\* an inference that tests for int before it tests for bool
InferPgTypeIntFirst(v) ==
    IF v = "None" THEN "TEXT"
    ELSE IF IsInstance(v, "int") THEN "BIGINT"
    ELSE IF IsInstance(v, "bool") THEN "BOOLEAN"
    ELSE IF IsInstance(v, "float") THEN "DOUBLE PRECISION"
    ELSE IF IsInstance(v, "Decimal") THEN "NUMERIC"
    ELSE IF IsInstance(v, "datetime") THEN "TIMESTAMP"
    ELSE IF IsInstance(v, "date") THEN "DATE"
    ELSE IF IsInstance(v, "dict") \/ IsInstance(v, "list") THEN "JSONB"
    ELSE IF \E b \in {"bytes", "bytearray", "memoryview"} : IsInstance(v, b) THEN "BYTEA"
    ELSE "TEXT"

\* _infer_pg_type(value)
InferPgType(v) ==
    IF v = "None" THEN "TEXT"
    ELSE IF IsInstance(v, "bool") THEN "BOOLEAN"
    ELSE IF IsInstance(v, "int") THEN "BIGINT"
    ELSE IF IsInstance(v, "float") THEN "DOUBLE PRECISION"
    ELSE IF IsInstance(v, "Decimal") THEN "NUMERIC"
    ELSE IF IsInstance(v, "datetime") THEN "TIMESTAMP"
    ELSE IF IsInstance(v, "date") THEN "DATE"
    ELSE IF IsInstance(v, "dict") \/ IsInstance(v, "list") THEN "JSONB"
    ELSE IF \E b \in {"bytes", "bytearray", "memoryview"} : IsInstance(v, b) THEN "BYTEA"
    ELSE "TEXT"

\* The type create / upsert give a missing column: column_types' entry, else
\* the inferred type when infer_types, else TEXT.
ColumnType(given, explicit, infer, v) ==
    LET typ == IF given THEN explicit ELSE PyNone
        typ2 == IF Falsy(typ) /\ infer THEN InferPgType(v) ELSE typ
    IN IF Falsy(typ2) THEN "TEXT" ELSE typ2

\* The type decision of a write for one missing column.
TypeColumn ==
    /\ \E v \in Values, infer \in BOOLEAN, given \in BOOLEAN :
         \E explicit \in (IF given THEN ExplicitTypes ELSE {""}) :
            typed' = [done |-> TRUE, value |-> v, explicit |-> explicit,
                      given |-> given, infer |-> infer,
                      typ |-> ColumnType(given, explicit, infer, v)]
    /\ UNCHANGED <<cfgVars, thrVars, dbVars, cacheVars, now, extVars, hookVars, pipeVars>>

NextInfer == TypeColumn

SpecInfer == Init /\ [][NextInfer]_vars

\* ---------------------------------------------------------------- hooks
Range(q) == {q[i] : i \in 1..Len(q)}

\* key = table or "*"
HookKey(table) == IF table = PyNone \/ table = "" THEN "*" ELSE table

\* setdefault(key, []).append(fn)
Registered(reg, table, fn) == [reg EXCEPT ![HookKey(table)] = Append(@, fn)]

\* register_before_insert(table, fn)
RegisterBefore(table) ==
    /\ nextHook <= MaxHooks
    /\ beforeHooks' = Registered(beforeHooks, table, nextHook)
    /\ nextHook' = nextHook + 1
    /\ UNCHANGED <<cfgVars, thrVars, dbVars, cacheVars, now, typed, extVars, afterHooks, hookRun,
                   pipeVars>>

\* register_after_insert(table, fn)
RegisterAfter(table) ==
    /\ nextHook <= MaxHooks
    /\ afterHooks' = Registered(afterHooks, table, nextHook)
    /\ nextHook' = nextHook + 1
    /\ UNCHANGED <<cfgVars, thrVars, dbVars, cacheVars, now, typed, extVars, beforeHooks, hookRun,
                   pipeVars>>

\* a run that takes the table's hooks before the global ones
HookOrderTableFirst(reg, table) == reg[table] \o reg["*"]

\* for key in ("*", table): for fn in hooks.get(key, [])
HookOrder(reg, table) == reg["*"] \o reg[table]

\* Position of the first hook of the order that raises, 0 when none does.
FirstBad(order, bad) ==
    LET B == {i \in 1..Len(order) : order[i] \in bad}
    IN IF B = {} THEN 0 ELSE CHOOSE i \in B : \A j \in B : i <= j

\* after-hooks that let the exception of a hook through
RunAfterHooksRaising(table, bad) ==
    LET order == HookOrder(afterHooks, table)
        k == FirstBad(order, bad)
    IN [ran |-> IF k = 0 THEN order ELSE SubSeq(order, 1, k), err |-> k # 0]

\* before-hooks that swallow the exception of a hook, as the after-hooks do
RunBeforeHooksSwallowing(table, bad) ==
    [ran |-> HookOrder(beforeHooks, table), err |-> FALSE]

\* _run_before_hooks(table, row); bad: the hooks that raise on this row
RunBeforeHooks(table, bad) ==
    LET order == HookOrder(beforeHooks, table)
        k == FirstBad(order, bad)
    IN [ran |-> IF k = 0 THEN order ELSE SubSeq(order, 1, k), err |-> k # 0]

\* _run_after_hooks(table, row): an exception of a hook is swallowed
RunAfterHooks(table, bad) ==
    [ran |-> HookOrder(afterHooks, table), err |-> FALSE]

HookRan(kind, table, bad, r) ==
    [done |-> TRUE, kind |-> kind, table |-> table, ran |-> r.ran, err |-> r.err,
     bad |-> bad]

\* The last run as a write call leaves it: a run that found no hook to call
\* is not recorded.
HookRanIn(kind, table, bad, r) ==
    IF r.ran = <<>> THEN hookRun ELSE HookRan(kind, table, bad, r)

\* One run of the before-hooks or of the after-hooks of a mutation on a table.
RunHooks ==
    /\ \E table \in Tables, bad \in SUBSET (1..(nextHook - 1)) :
         \/ hookRun' = HookRan("before", table, bad, RunBeforeHooks(table, bad))
         \/ hookRun' = HookRan("after", table, bad, RunAfterHooks(table, bad))
    /\ UNCHANGED <<cfgVars, thrVars, dbVars, cacheVars, now, typed, extVars, beforeHooks,
                   afterHooks, nextHook, pipeVars>>

\* The table arguments hooks are registered with.
RegisterArgs == {PyNone, ""} \cup HookKeys

NextHooks ==
    \/ \E table \in RegisterArgs : RegisterBefore(table)
    \/ \E table \in RegisterArgs : RegisterAfter(table)
    \/ RunHooks

SpecHooks == Init /\ [][NextHooks]_vars

\* ---------------------------------------------------------------- write calls
\* The thread is between calls.
Idle(t) == call[t].pc \in {"idle", "done", "failed"}

\* Another session holds a lock on the table that ALTER TABLE conflicts with:
\* the statement waits until that session's transaction ends.
DdlBlocked(c) == \E d \in ConnIds \ {c} : conns[d].pending # Empty

\* Another session holds the ACCESS EXCLUSIVE lock of an uncommitted ALTER TABLE.
DmlBlocked(c) == \E d \in ConnIds \ {c} : conns[d].pending.cols # {}

\* an ADD COLUMN that retypes a column that exists
PgAddColumnRetypes(cs, col) ==
    IF cs.failed THEN [cs |-> cs, err |-> TRUE, added |-> FALSE]
    ELSE [cs |-> [cs EXCEPT !.pending.cols = @ \cup {col}], err |-> FALSE, added |-> TRUE]

\* an ADD COLUMN without IF NOT EXISTS: an error when the column is there
PgAddColumnStrict(cs, col) ==
    IF cs.failed \/ col \in Visible(cs).cols THEN [cs |-> cs, err |-> TRUE, added |-> FALSE]
    ELSE [cs |-> [cs EXCEPT !.pending.cols = @ \cup {col}], err |-> FALSE, added |-> TRUE]

\* ALTER TABLE ... ADD COLUMN IF NOT EXISTS col typ
PgAddColumn(cs, col) ==
    IF cs.failed THEN [cs |-> cs, err |-> TRUE, added |-> FALSE]
    ELSE IF col \in Visible(cs).cols THEN [cs |-> cs, err |-> FALSE, added |-> FALSE]
    ELSE [cs |-> [cs EXCEPT !.pending.cols = @ \cup {col}], err |-> FALSE, added |-> TRUE]

\* an invalidation that spares an entry whose TTL has not run out
InvalidateSetsIfExpired(entry) == IF CacheFresh(entry) THEN entry ELSE NoEntry

\* _invalidate_schema_cache(table): what is left of the table's entry
InvalidateSets(entry) == NoEntry

\* inspect_schema(table) called by t: what it returns and what it leaves.
Inspect(t) ==
    LET same == [err |-> "none", cols |-> schemaCache.cols, cache |-> schemaCache,
                 pool |-> pool, committed |-> committed, conns |-> conns,
                 foreign |-> FALSE, stored |-> FALSE]
        r == CurrentConnection(t)
        c == r.conn
        inTx == InTransaction(t)
        ok == ~conns[c].failed
        seen == Visible(conns[c]).cols
    IN IF CacheFresh(schemaCache) THEN same
       ELSE IF r.err # "none" THEN [same EXCEPT !.err = r.err, !.cols = {}]
       ELSE [err |-> IF ok THEN "none" ELSE "Error",
             cols |-> IF ok THEN seen ELSE {},
             cache |-> IF ok THEN [present |-> TRUE, ts |-> now, cols |-> seen]
                       ELSE schemaCache,
             pool |-> ReleaseConnection(r.pool, inTx, c),
             committed |-> IF inTx THEN committed
                           ELSE Join(committed, CommitSet(conns[c])),
             conns |-> IF inTx THEN conns ELSE [conns EXCEPT ![c] = CleanConn],
             foreign |-> Foreign(t, c),
             stored |-> ok]

WriteOps == {"create", "upsert", "bulk_create", "ensure_columns"}

\* The stage that follows the creation of missing columns.
AfterColumns(o) ==
    CASE o = "create" -> "before"
      [] o = "bulk_create" -> "before"
      [] o = "upsert" -> "stmt"
      [] OTHER -> "done"

\* The stage that follows the statement.
AfterStatement(o) == IF o = "upsert" THEN "ret" ELSE "after"

\* What is kept of a call that is over: which call it was and what it did.
Over(c, pc) == [NoCall EXCEPT !.op = c.op, !.pc = pc, !.log = c.log]

Failed(c) == Over(c, "failed")

Done(c) == Over(c, "done")

\* A cache entry has been stored: every call in progress has seen the cache
\* refilled since its invalidation.
Stored(yes) ==
    [u \in Threads |-> IF yes /\ ~Idle(u) THEN [call[u] EXCEPT !.refilled = TRUE]
                       ELSE call[u]]

\* The write calls each thread makes.
OpsOf(t) == IF t \in Nesting THEN WriteOps ELSE {"create"}

\* The values each thread writes: the threads carry values of different
\* inferred types for the same column.
ValuesOf(t) == IF t \in Nesting THEN {"int"} ELSE WriteValues \ {"int"}

\* A write call starts.  create, upsert and bulk_create look the schema up;
\* ensure_columns goes straight to its ALTER TABLE.
WriteBegin(t) ==
    /\ Idle(t) /\ exc[t] = "none" /\ op[t] = NoOp
    /\ started < MaxWrites
    /\ started' = started + 1
    /\ hookRun' = NoHookRun
    /\ \E o \in OpsOf(t), col \in WriteCols, v \in ValuesOf(t) :
         LET new == [NoCall EXCEPT !.op = o, !.col = col,
                                   !.typ = ColumnType(FALSE, "", TRUE, v)]
             r == Inspect(t)
         IN IF o = "ensure_columns"
            THEN /\ call' = [call EXCEPT ![t] = [new EXCEPT !.pc = "ddl", !.missing = TRUE]]
                 /\ UNCHANGED <<pool, exc, committed, conns, foreignUse, schemaCache>>
            ELSE /\ pool' = r.pool
                 /\ committed' = r.committed
                 /\ conns' = r.conns
                 /\ schemaCache' = r.cache
                 /\ foreignUse' = (foreignUse \/ r.foreign)
                 /\ exc' = IF r.err # "none" THEN Raise(t, r.err) ELSE exc
                 /\ call' = [Stored(r.stored) EXCEPT ![t] =
                        IF r.err # "none" THEN Failed(new)
                        ELSE [new EXCEPT !.missing = col \notin r.cols,
                                         !.pc = IF col \notin r.cols THEN "ddl"
                                                ELSE AfterColumns(o),
                                         !.log = <<"lookup">>]]
    /\ UNCHANGED <<connection, nextConn, closedConns, lastCall, localConn, depth,
                   frames, op, txW, calls, now, ttl, lookup, typed, extVars, beforeHooks,
                   afterHooks, nextHook, colType>>

\* The ALTER TABLE ... ADD COLUMN IF NOT EXISTS of a write call, in its own
\* _get_cursor scope; outside a transaction the scope is closed by OpEnd.
WriteDdl(t) ==
    /\ call[t].pc = "ddl" /\ op[t] = NoOp
    /\ LET r == CurrentConnection(t)
           c == r.conn
           a == PgAddColumn(conns[c], call[t].col)
           did == [call[t] EXCEPT !.conn = c, !.changed = a.added,
                                  !.log = Append(@, "ddl"), !.pc = "inval"]
       IN IF r.err # "none"
          THEN /\ exc' = Raise(t, r.err)
               /\ call' = [call EXCEPT ![t] = Failed(@)]
               /\ UNCHANGED <<pool, op, conns, foreignUse, colType>>
          ELSE /\ ~DdlBlocked(c)
               /\ pool' = r.pool
               /\ conns' = [conns EXCEPT ![c] = a.cs]
               /\ colType' = IF a.added THEN [colType EXCEPT ![call[t].col] = call[t].typ]
                             ELSE colType
               /\ foreignUse' = (foreignUse \/ Foreign(t, c))
               /\ IF InTransaction(t)
                  THEN /\ exc' = IF a.err THEN Raise(t, "Error") ELSE exc
                       /\ call' = [call EXCEPT ![t] = IF a.err THEN Failed(did) ELSE did]
                       /\ UNCHANGED op
                  ELSE /\ op' = [op EXCEPT ![t] = [conn |-> c, err |-> a.err, w |-> 0]]
                       /\ call' = [call EXCEPT ![t] = did]
                       /\ UNCHANGED exc
    /\ UNCHANGED <<connection, nextConn, closedConns, lastCall, localConn, depth,
                   frames, txW, committed, calls, now, cacheVars, typed, extVars, hookVars,
                   started>>

\* After the ALTER TABLE scope: its exception ends the call, otherwise the
\* table's cache entry is dropped.
WriteInvalidate(t) ==
    /\ call[t].pc = "inval" /\ op[t] = NoOp
    /\ IF exc[t] # "none"
       THEN /\ call' = [call EXCEPT ![t] = Failed(@)]
            /\ UNCHANGED schemaCache
       ELSE /\ schemaCache' = InvalidateSets(schemaCache)
            /\ call' = [call EXCEPT ![t] =
                   IF AfterColumns(call[t].op) = "done" THEN Done(@)
                   ELSE [@ EXCEPT !.pc = AfterColumns(call[t].op), !.refilled = FALSE]]
    /\ UNCHANGED <<cfgVars, thrVars, dbVars, now, ttl, lookup, typed, extVars, hookVars,
                   colType, started>>

\* The before-hooks of create / bulk_create; bad: the hooks that raise.
WriteBefore(t) ==
    /\ call[t].pc = "before"
    /\ \E bad \in SUBSET Range(HookOrder(beforeHooks, "t")) :
         LET r == RunBeforeHooks("t", bad)
         IN /\ hookRun' = HookRanIn("before", "t", bad, r)
            /\ exc' = IF r.err THEN Raise(t, "RuntimeError") ELSE exc
            /\ call' = [call EXCEPT ![t] =
                   IF r.err THEN Failed([@ EXCEPT !.log = Append(@, "before")])
                   ELSE [@ EXCEPT !.log = Append(@, "before"), !.pc = "stmt"]]
    /\ UNCHANGED <<cfgVars, localConn, depth, frames, op, txW, foreignUse, dbVars, now,
                   cacheVars, typed, extVars, beforeHooks, afterHooks, nextHook, colType,
                   started>>

\* The INSERT of a write call, in its own _get_cursor scope; the store rejects
\* it when it names a column the session does not see.
WriteStmt(t) ==
    /\ call[t].pc = "stmt" /\ op[t] = NoOp
    /\ calls < MaxCalls
    /\ \E out \in {"ok", "dberr"} :
         LET r == CurrentConnection(t)
             c == r.conn
             e == PgExecute(conns[c], calls + 1,
                            IF call[t].col \in Visible(conns[c]).cols THEN out
                            ELSE "dberr")
             did == [call[t] EXCEPT !.w = e.w, !.log = Append(@, "stmt"),
                                    !.pc = AfterStatement(call[t].op)]
         IN IF r.err # "none"
            THEN /\ out = "ok"
                 /\ exc' = Raise(t, r.err)
                 /\ call' = [call EXCEPT ![t] = Failed(@)]
                 /\ UNCHANGED <<pool, op, conns, calls, txW, frames, foreignUse>>
            ELSE /\ ~DmlBlocked(c)
                 /\ conns' = [conns EXCEPT ![c] = e.cs]
                 /\ calls' = IF e.w # 0 THEN calls + 1 ELSE calls
                 /\ foreignUse' = (foreignUse \/ Foreign(t, c))
                 /\ pool' = r.pool
                 /\ IF InTransaction(t)
                    THEN /\ exc' = IF e.err THEN Raise(t, "Error") ELSE exc
                         /\ txW' = [txW EXCEPT ![t] = IF e.w # 0 THEN @ \cup {e.w} ELSE @]
                         /\ frames' = [frames EXCEPT ![t][Len(frames[t])].ws =
                                          IF e.w # 0 THEN @ \cup {e.w} ELSE @]
                         /\ call' = [call EXCEPT ![t] = IF e.err THEN Failed(did) ELSE did]
                         /\ UNCHANGED op
                    ELSE /\ op' = [op EXCEPT ![t] = [conn |-> c, err |-> e.err, w |-> e.w]]
                         /\ call' = [call EXCEPT ![t] = did]
                         /\ UNCHANGED <<exc, txW, frames>>
    /\ UNCHANGED <<connection, nextConn, closedConns, lastCall, localConn, depth,
                   committed, now, cacheVars, typed, extVars, hookVars, colType, started>>

\* After the INSERT scope of create / bulk_create: its exception ends the
\* call, otherwise the after-hooks run; bad: the hooks that raise.
WriteAfter(t) ==
    /\ call[t].pc = "after" /\ op[t] = NoOp
    /\ IF exc[t] # "none"
       THEN /\ call' = [call EXCEPT ![t] = Failed(@)]
            /\ UNCHANGED hookRun
       ELSE \E bad \in SUBSET Range(HookOrder(afterHooks, "t")) :
              LET r == RunAfterHooks("t", bad)
              IN /\ hookRun' = HookRanIn("after", "t", bad, r)
                 /\ call' = [call EXCEPT ![t] =
                        IF r.err THEN Failed([@ EXCEPT !.log = Append(@, "after")])
                        ELSE IF call[t].op = "create"
                        THEN [@ EXCEPT !.log = Append(@, "after"), !.pc = "load"]
                        ELSE Done([@ EXCEPT !.log = Append(@, "after")])]
    /\ exc' = IF exc[t] = "none" /\ call'[t].pc = "failed"
              THEN Raise(t, "Error") ELSE exc
    /\ UNCHANGED <<cfgVars, localConn, depth, frames, op, txW, foreignUse, dbVars, now,
                   cacheVars, typed, extVars, beforeHooks, afterHooks, nextHook, colType,
                   started>>

\* create returns cls(table, new_id): _load_columns looks the schema up.
WriteLoad(t) ==
    /\ call[t].pc = "load"
    /\ LET r == Inspect(t)
       IN /\ pool' = r.pool
          /\ committed' = r.committed
          /\ conns' = r.conns
          /\ schemaCache' = r.cache
          /\ foreignUse' = (foreignUse \/ r.foreign)
          /\ exc' = IF r.err # "none" THEN Raise(t, r.err) ELSE exc
          /\ call' = [Stored(r.stored) EXCEPT ![t] =
                        IF r.err # "none" THEN Failed(@)
                        ELSE [@ EXCEPT !.pc = "read"]]
    /\ UNCHANGED <<connection, nextConn, closedConns, lastCall, localConn, depth,
                   frames, op, txW, calls, now, ttl, lookup, typed, extVars, hookVars, colType,
                   started>>

\* create returns cls(table, new_id): _load_data selects the row by its id in
\* a _get_cursor scope of its own.
WriteRead(t) ==
    /\ call[t].pc = "read"
    /\ LET r == CurrentConnection(t)
           c == r.conn
           inTx == InTransaction(t)
           found == ~conns[c].failed /\ call[t].w \in Visible(conns[c]).rows
       IN IF r.err # "none"
          THEN /\ exc' = Raise(t, r.err)
               /\ call' = [call EXCEPT ![t] = Failed(@)]
               /\ UNCHANGED <<pool, committed, conns, foreignUse>>
          ELSE /\ pool' = ReleaseConnection(r.pool, inTx, c)
               /\ foreignUse' = (foreignUse \/ Foreign(t, c))
               /\ committed' = IF inTx \/ ~found THEN committed
                               ELSE Join(committed, CommitSet(conns[c]))
               /\ conns' = IF inTx THEN conns ELSE [conns EXCEPT ![c] = CleanConn]
               /\ exc' = IF found THEN exc
                         ELSE Raise(t, IF conns[c].failed THEN "Error" ELSE "ValueError")
               /\ call' = [call EXCEPT ![t] = IF found THEN Done(@) ELSE Failed(@)]
    /\ UNCHANGED <<connection, nextConn, closedConns, lastCall, localConn, depth,
                   frames, op, txW, calls, now, cacheVars, typed, extVars, hookVars, colType,
                   started>>

\* upsert returns from inside its INSERT scope: the call is over when the
\* scope has been left.
WriteReturn(t) ==
    /\ call[t].pc = "ret" /\ op[t] = NoOp
    /\ call' = [call EXCEPT ![t] = IF exc[t] # "none" THEN Failed(@)
                                   ELSE Done(@)]
    /\ UNCHANGED <<cfgVars, thrVars, dbVars, now, cacheVars, typed, extVars, hookVars, colType,
                   started>>

NextWrite ==
    \/ Configure
    \/ \E t \in Threads :
         \/ (t \in Nesting /\ Idle(t) /\ frames[t] = <<>> /\ TxEnter(t))
         \/ (Idle(t) /\ ScopeExit(t, FALSE))
         \/ (Idle(t) /\ ScopeExit(t, TRUE))
         \/ OpEnd(t)
         \/ Catch(t)
         \/ WriteBegin(t)
         \/ WriteDdl(t)
         \/ WriteInvalidate(t)
         \/ WriteBefore(t)
         \/ WriteStmt(t)
         \/ WriteAfter(t)
         \/ WriteLoad(t)
         \/ WriteRead(t)
         \/ WriteReturn(t)

SpecWrite == Init /\ [][NextWrite]_vars

\* The write calls of one thread, with hooks registered before the first call.
PipeArgs == {PyNone, "t"}

NextPipe ==
    \/ Configure
    \/ \E table \in PipeArgs :
         started = 0 /\ nextHook <= MaxPipeHooks /\ RegisterBefore(table)
    \/ \E table \in PipeArgs :
         started = 0 /\ nextHook <= MaxPipeHooks /\ RegisterAfter(table)
    \/ \E t \in Nesting :
         \/ (Idle(t) /\ frames[t] = <<>> /\ TxEnter(t))
         \/ (Idle(t) /\ ScopeExit(t, FALSE))
         \/ (Idle(t) /\ ScopeExit(t, TRUE))
         \/ OpEnd(t)
         \/ Catch(t)
         \/ WriteBegin(t)
         \/ WriteDdl(t)
         \/ WriteInvalidate(t)
         \/ WriteBefore(t)
         \/ WriteStmt(t)
         \/ WriteAfter(t)
         \/ WriteLoad(t)
         \/ WriteRead(t)
         \/ WriteReturn(t)

SpecPipe == Init /\ [][NextPipe]_vars

\* ---------------------------------------------------------------- ensure_columns
\* The explicit types ensure_columns is called with.
EnsureTypes == {"BIGINT", "TEXT"}

\* ensure_columns(table, {col: typ}) called by t outside a transaction: what
\* it raises and what it leaves.  The ALTER TABLE runs in a _get_cursor scope
\* (commit, or rollback on an error, then release); the cache entry is dropped
\* when the scope was left without an error.
EnsureSets(t, col, typ) ==
    LET r == CurrentConnection(t)
        c == r.conn
        a == PgAddColumn(conns[c], col)
    IN IF r.err # "none"
       THEN [err |-> r.err, pool |-> pool, committed |-> committed, conns |-> conns,
             cache |-> schemaCache, types |-> colType, changed |-> FALSE]
       ELSE [err |-> IF a.err THEN "Error" ELSE "none",
             pool |-> ReleaseConnection(r.pool, FALSE, c),
             committed |-> IF a.err THEN committed
                           ELSE Join(committed, CommitSet(a.cs)),
             conns |-> [conns EXCEPT ![c] = CleanConn],
             cache |-> IF a.err THEN schemaCache ELSE InvalidateSets(schemaCache),
             types |-> IF a.added THEN [colType EXCEPT ![col] = typ] ELSE colType,
             changed |-> a.added]

\* ensure_columns(table, columns), run to its end; with no columns it returns
\* at once.
EnsureColumns(t) ==
    /\ Idle(t) /\ exc[t] = "none" /\ op[t] = NoOp /\ ~InTransaction(t)
    /\ started < MaxWrites
    /\ started' = started + 1
    /\ \/ /\ call' = [call EXCEPT ![t] = [NoCall EXCEPT !.op = "ensure_columns",
                                                       !.pc = "done"]]
          /\ UNCHANGED <<pool, committed, conns, schemaCache, colType, exc>>
       \/ \E col \in Columns \ {"id"}, typ \in EnsureTypes :
            LET r == EnsureSets(t, col, typ)
            IN /\ pool' = r.pool
               /\ committed' = r.committed
               /\ conns' = r.conns
               /\ schemaCache' = r.cache
               /\ colType' = r.types
               /\ exc' = IF r.err # "none" THEN Raise(t, r.err) ELSE exc
               /\ call' = [call EXCEPT ![t] =
                      [NoCall EXCEPT !.op = "ensure_columns", !.col = col, !.typ = typ,
                                     !.missing = TRUE, !.changed = r.changed,
                                     !.pc = IF r.err # "none" THEN "failed" ELSE "done"]]
    /\ UNCHANGED <<connection, nextConn, closedConns, lastCall, localConn, depth,
                   frames, op, txW, foreignUse, calls, now, ttl, lookup, typed, extVars,
                   hookVars>>

NextEnsure ==
    \/ Configure
    \/ DirectAddColumn
    \/ \E t \in Nesting : InspectSchema(t) \/ Catch(t) \/ EnsureColumns(t)

SpecEnsure == Init /\ [][NextEnsure]_vars

\* ---------------------------------------------------------------- rows and entities
\* The columns of the table besides id once the row of the entities is there.
RowCols == {"version", "a"}

\* What the statement that wrote a token did to the row it found.
Apply(row, e) ==
    CASE e.kind \in {"none", "set"} -> row
      [] e.kind = "insert" -> [exists |-> TRUE, version |-> e.ver, deleted |-> FALSE]
      [] e.kind = "delete" -> [row EXCEPT !.exists = FALSE]
      [] OTHER ->
           IF ~row.exists THEN row
           ELSE [exists |-> TRUE,
                 version |-> IF e.kind = "bump" THEN row.version + 1
                             ELSE IF e.ver >= 0 THEN e.ver ELSE row.version,
                 deleted |-> IF e.del = "keep" THEN row.deleted ELSE e.del = "TRUE"]

NoRow == [exists |-> FALSE, version |-> 0, deleted |-> FALSE]

RECURSIVE RowFrom(_, _)
RowFrom(row, S) ==
    IF S = {} THEN row
    ELSE LET w == CHOOSE x \in S : \A y \in S : x <= y
         IN RowFrom(Apply(row, effect[w]), S \ {w})

\* The row as the statements that wrote the tokens of S left it.
RowOf(S) == RowFrom(NoRow, S)

\* The row as stored, and as the next statement of t finds it.
StoredRow == RowOf(committed.rows)

SeenRow(t) == RowOf(Visible(conns[CurrentConnection(t).conn]).rows)

\* Another session holds the row's lock (an uncommitted write) or the lock of
\* an uncommitted ALTER TABLE: the statement waits.
RowBlocked(c) == DmlBlocked(c) \/ \E d \in ConnIds \ {c} : conns[d].pending.rows # {}

\* The columns soft_delete works with.
SoftCols == {"deleted_at", "deleted"}

\* The table as the entities find it: one row, with a version column
\* (BIGINT NOT NULL DEFAULT 0) and a data column, with or without the columns
\* of an earlier soft delete.
SeedRow ==
    /\ Unconfigured /\ calls = 0 /\ committed.rows = {}
    /\ \E soft \in {{}, SoftCols} :
         committed' = [rows |-> {1}, cols |-> committed.cols \cup RowCols \cup soft]
    /\ effect' = [effect EXCEPT ![1] = [kind |-> "insert", ver |-> 0, del |-> "keep"]]
    /\ calls' = 1
    /\ UNCHANGED <<cfgVars, thrVars, conns, now, cacheVars, typed, hookVars, pipeVars, sideVars, ent>>

\* Entity(table, id), first half: _load_columns takes the columns from
\* inspect_schema.  Each thread holds one instance.
LoadColumns(t) ==
    /\ ent[t].pc = "none" /\ exc[t] = "none" /\ op[t] = NoOp
    /\ LET r == Inspect(t)
       IN /\ pool' = r.pool
          /\ committed' = r.committed
          /\ conns' = r.conns
          /\ schemaCache' = r.cache
          /\ foreignUse' = (foreignUse \/ r.foreign)
          /\ exc' = IF r.err # "none" THEN Raise(t, r.err) ELSE exc
          /\ ent' = [ent EXCEPT ![t] =
                 IF r.err # "none" THEN NoEnt
                 ELSE [NoEnt EXCEPT !.pc = "cols", !.cols = r.cols]]
    /\ UNCHANGED <<connection, nextConn, closedConns, lastCall, localConn, depth,
                   frames, op, txW, calls, now, ttl, lookup, typed, hookVars, pipeVars, sideVars,
                   effect>>

\* What _load_data puts into _data for the columns the entity knows.
Loaded(e, row) ==
    [e EXCEPT !.pc = "ready",
              !.version = IF "version" \in e.cols THEN row.version ELSE 0 - 1,
              !.at = IF "version" \in e.cols THEN row.version ELSE 0 - 1,
              !.deleted = IF "deleted" \notin e.cols THEN "unset"
                          ELSE IF row.deleted THEN "TRUE" ELSE "FALSE",
              !.tries = 0, !.ret = "none"]

\* _load_data, as the second half of the constructor and as refresh(): SELECT
\* the known columns of the row by id in a _get_cursor scope; ValueError when
\* there is no such row.
LoadData(t) ==
    /\ ent[t].pc \in {"cols", "ready"} /\ exc[t] = "none" /\ op[t] = NoOp
    /\ LET r == CurrentConnection(t)
           c == r.conn
           inTx == InTransaction(t)
           ok == ~conns[c].failed /\ ent[t].cols \subseteq Visible(conns[c]).cols
           row == RowOf(Visible(conns[c]).rows)
           gone == IF ent[t].pc = "cols" THEN NoEnt ELSE ent[t]
       IN IF r.err # "none"
          THEN /\ exc' = Raise(t, r.err)
               /\ ent' = [ent EXCEPT ![t] = gone]
               /\ UNCHANGED <<pool, committed, conns, foreignUse>>
          ELSE /\ ~DmlBlocked(c)
               /\ pool' = ReleaseConnection(r.pool, inTx, c)
               /\ foreignUse' = (foreignUse \/ Foreign(t, c))
               /\ committed' = IF inTx \/ ~ok THEN committed
                               ELSE Join(committed, CommitSet(conns[c]))
               /\ conns' = IF inTx
                           THEN [conns EXCEPT ![c].failed = @ \/ ~ok]
                           ELSE [conns EXCEPT ![c] = CleanConn]
               /\ exc' = IF ok /\ row.exists THEN exc
                         ELSE Raise(t, IF ok THEN "ValueError" ELSE "Error")
               /\ ent' = [ent EXCEPT ![t] =
                      IF ok /\ row.exists THEN Loaded(@, row) ELSE gone]
    /\ UNCHANGED <<connection, nextConn, closedConns, lastCall, localConn, depth,
                   frames, op, txW, calls, now, cacheVars, typed, hookVars, pipeVars, sideVars,
                   effect>>

\* An UPDATE or DELETE of the row by id in a _get_cursor scope.  e: what the
\* statement does to the row; hit: its WHERE clause matches the row; named: the
\* columns it names; after: the entity when the statement has succeeded.
RowStmt(t, e, hit, named, after) ==
    /\ exc[t] = "none" /\ op[t] = NoOp
    /\ calls < MaxCalls
    /\ LET r == CurrentConnection(t)
           c == r.conn
           x == PgExecute(conns[c], calls + 1,
                          IF named \subseteq Visible(conns[c]).cols THEN "ok" ELSE "dberr")
           w == IF ~x.err /\ hit THEN x.w ELSE 0
       IN IF r.err # "none"
          THEN /\ exc' = Raise(t, r.err)
               /\ ent' = [ent EXCEPT ![t].pc = "ready"]
               /\ UNCHANGED <<pool, op, conns, calls, txW, frames, foreignUse, effect>>
          ELSE /\ ~RowBlocked(c)
               /\ conns' = [conns EXCEPT ![c] = IF x.err \/ w # 0 THEN x.cs ELSE @]
               /\ calls' = IF w # 0 THEN calls + 1 ELSE calls
               /\ effect' = IF w # 0 THEN [effect EXCEPT ![w] = e] ELSE effect
               /\ ent' = [ent EXCEPT ![t] = IF x.err THEN [@ EXCEPT !.pc = "ready"] ELSE after]
               /\ foreignUse' = (foreignUse \/ Foreign(t, c))
               /\ pool' = r.pool
               /\ IF InTransaction(t)
                  THEN /\ exc' = IF x.err THEN Raise(t, "Error") ELSE exc
                       /\ txW' = [txW EXCEPT ![t] = IF w # 0 THEN @ \cup {w} ELSE @]
                       /\ frames' = [frames EXCEPT ![t][Len(frames[t])].ws =
                                        IF w # 0 THEN @ \cup {w} ELSE @]
                       /\ UNCHANGED op
                  ELSE /\ op' = [op EXCEPT ![t] = [conn |-> c, err |-> x.err, w |-> w]]
                       /\ UNCHANGED <<exc, txW, frames>>
    /\ UNCHANGED <<connection, nextConn, closedConns, lastCall, localConn, depth,
                   committed, now, cacheVars, typed, hookVars, pipeVars, sideVars>>

\* What the SET list of save() and save_with_version() writes into the deleted
\* column: the value the entity holds, when it knows the column.
HeldDeleted(e) == IF "deleted" \in e.cols THEN e.deleted ELSE "keep"

\* save(): UPDATE ... SET every column but id to the value held in _data.
SaveEffect(e) ==
    [kind |-> "save", ver |-> IF "version" \in e.cols THEN e.version ELSE 0 - 1,
     del |-> HeldDeleted(e)]

Save(t) ==
    /\ ent[t].pc = "ready" /\ ent[t].cols \ {"id"} # {}
    /\ RowStmt(t, SaveEffect(ent[t]), SeenRow(t).exists, ent[t].cols, ent[t])

\* obj.a = value for a column the entity knows
SetField(t) ==
    /\ ent[t].pc = "ready" /\ "a" \in ent[t].cols
    /\ RowStmt(t, [NoEffect EXCEPT !.kind = "set"], SeenRow(t).exists, {"a"}, ent[t])

\* a conditional update that matches whatever the stored version is
VersionMatchesAlways(row, e) == row.exists

\* The WHERE id = %s AND version = %s of save_with_version.
VersionMatches(row, e) == row.exists /\ row.version = e.version

\* save_with_version(): the conditional UPDATE; True when one row was updated.
SaveWithVersion(t) ==
    /\ ent[t].pc = "ready"
    /\ IF "version" \notin ent[t].cols
       THEN /\ exc[t] = "none" /\ op[t] = NoOp
            /\ exc' = Raise(t, "ValueError")
            /\ UNCHANGED <<cfgVars, localConn, depth, frames, op, txW, foreignUse, dbVars,
                           now, cacheVars, typed, effect, ent, hookVars, pipeVars, sideVars>>
       ELSE LET hit == VersionMatches(SeenRow(t), ent[t])
            IN RowStmt(t, [kind |-> "bump", ver |-> 0 - 1, del |-> HeldDeleted(ent[t])],
                       hit, ent[t].cols,
                       [ent[t] EXCEPT !.version = IF hit THEN @ + 1 ELSE @,
                                      !.tries = IF @ = 0 THEN 1 ELSE 2,
                                      !.ret = IF hit THEN "True" ELSE "False"])

\* delete(): DELETE FROM t WHERE id = %s
Delete(t) ==
    /\ ent[t].pc = "ready"
    /\ RowStmt(t, [NoEffect EXCEPT !.kind = "delete"], SeenRow(t).exists, {"id"}, ent[t])

\* Entities of the row that only call save_with_version, outside transactions.
NextLock ==
    \/ SeedRow
    \/ Configure
    \/ \E t \in Threads :
         \/ LoadColumns(t) \/ LoadData(t) \/ SaveWithVersion(t) \/ OpEnd(t) \/ Catch(t)

SpecLock == Init /\ [][NextLock]_vars

\* The column soft_delete adds next: deleted_at first, then deleted.
MissingSoft(e) == IF "deleted_at" \notin e.cols THEN "deleted_at" ELSE "deleted"

KnowsSoft(e) == SoftCols \subseteq e.cols

\* soft_delete(), one of its ALTER TABLE ... ADD COLUMN IF NOT EXISTS scopes,
\* entered at the start of the call or after the invalidation of the first.
SoftDeleteDdl(t) ==
    /\ ent[t].pc \in {"ready", "soft"} /\ ~KnowsSoft(ent[t])
    /\ exc[t] = "none" /\ op[t] = NoOp
    /\ LET r == CurrentConnection(t)
           c == r.conn
           a == PgAddColumn(conns[c], MissingSoft(ent[t]))
       IN IF r.err # "none"
          THEN /\ exc' = Raise(t, r.err)
               /\ ent' = [ent EXCEPT ![t].pc = "ready"]
               /\ UNCHANGED <<pool, op, conns, foreignUse>>
          ELSE /\ ~DdlBlocked(c)
               /\ pool' = r.pool
               /\ conns' = [conns EXCEPT ![c] = a.cs]
               /\ foreignUse' = (foreignUse \/ Foreign(t, c))
               /\ IF InTransaction(t)
                  THEN /\ exc' = IF a.err THEN Raise(t, "Error") ELSE exc
                       /\ ent' = [ent EXCEPT ![t].pc = IF a.err THEN "ready" ELSE "added"]
                       /\ UNCHANGED op
                  ELSE /\ op' = [op EXCEPT ![t] = [conn |-> c, err |-> a.err, w |-> 0]]
                       /\ ent' = [ent EXCEPT ![t].pc = "added"]
                       /\ UNCHANGED exc
    /\ UNCHANGED <<connection, nextConn, closedConns, lastCall, localConn, depth,
                   frames, txW, committed, calls, now, cacheVars, typed, hookVars, pipeVars, sideVars,
                   effect>>

\* After that scope: its exception ends the call; otherwise the entity notes
\* the column and the table's cache entry is dropped.
SoftDeleteInvalidate(t) ==
    /\ ent[t].pc = "added" /\ op[t] = NoOp
    /\ IF exc[t] # "none"
       THEN /\ ent' = [ent EXCEPT ![t].pc = "ready"]
            /\ UNCHANGED schemaCache
       ELSE /\ ent' = [ent EXCEPT ![t].pc = "soft", ![t].cols = @ \cup {MissingSoft(ent[t])}]
            /\ schemaCache' = InvalidateSets(schemaCache)
    /\ UNCHANGED <<cfgVars, thrVars, dbVars, now, ttl, lookup, typed, hookVars, pipeVars, sideVars,
                   effect>>

\* soft_delete(), its UPDATE ... SET deleted_at = now, deleted = TRUE.
SoftDeleteUpdate(t) ==
    /\ ent[t].pc \in {"ready", "soft"} /\ KnowsSoft(ent[t])
    /\ RowStmt(t, [kind |-> "softdel", ver |-> 0 - 1, del |-> "TRUE"], SeenRow(t).exists,
               SoftCols,
               [ent[t] EXCEPT !.pc = "ready", !.deleted = "TRUE", !.ret = "soft_delete"])

\* a restore that writes the row back (INSERT ... ON CONFLICT DO UPDATE)
RestoreReinserting(t) ==
    /\ ent[t].pc = "ready" /\ KnowsSoft(ent[t])
    /\ RowStmt(t, [kind |-> "insert", ver |-> 0, del |-> "FALSE"], TRUE, SoftCols,
               [ent[t] EXCEPT !.deleted = "FALSE", !.ret = "restore"])

\* restore_soft_deleted(): nothing when the entity does not know both
\* columns, else UPDATE ... SET deleted_at = NULL, deleted = FALSE.
RestoreSoftDeleted(t) ==
    /\ ent[t].pc = "ready"
    /\ IF ~KnowsSoft(ent[t])
       THEN /\ exc[t] = "none" /\ op[t] = NoOp
            /\ ent' = [ent EXCEPT ![t].ret = "restore"]
            /\ UNCHANGED <<cfgVars, localConn, depth, frames, exc, op, txW, foreignUse,
                           dbVars, now, cacheVars, typed, effect, hookVars, pipeVars, sideVars>>
       ELSE RowStmt(t, [kind |-> "restore", ver |-> 0 - 1, del |-> "FALSE"],
                    SeenRow(t).exists, SoftCols,
                    [ent[t] EXCEPT !.deleted = "FALSE", !.ret = "restore"])

\* find_ids / count / get_all of the table by t: _append_soft_delete_filter
\* adds COALESCE(deleted, FALSE) = FALSE when exclude_deleted is set and
\* _has_column finds the column through inspect_schema.  "in": the row of the
\* entities is in the result; "out": it is not; "error": the call raises.
Lists(t, exclude_deleted) ==
    LET c == CurrentConnection(t)
    IN IF c.err # "none" THEN "error"
       ELSE LET seen == Visible(conns[c.conn])
                known == IF CacheFresh(schemaCache) THEN schemaCache.cols ELSE seen.cols
                filter == exclude_deleted /\ "deleted" \in known
                row == RowOf(seen.rows)
            IN IF conns[c.conn].failed \/ (filter /\ "deleted" \notin seen.cols)
               THEN "error"
               ELSE IF row.exists /\ (filter => ~row.deleted) THEN "in" ELSE "out"

\* Entities of the row used without transaction() scopes: one instance calls
\* save_with_version and soft_delete, the other assigns and saves, both
\* restore.
NextRow ==
    \/ SeedRow
    \/ Configure
    \/ \E t \in Nesting :
         \/ SaveWithVersion(t)
         \/ SoftDeleteDdl(t) \/ SoftDeleteInvalidate(t) \/ SoftDeleteUpdate(t)
    \/ \E t \in Threads \ Nesting : SetField(t) \/ Save(t)
    \/ \E t \in Threads :
         \/ LoadColumns(t) \/ LoadData(t) \/ RestoreSoftDeleted(t)
         \/ OpEnd(t) \/ Catch(t)

SpecRow == Init /\ [][NextRow]_vars

\* Entities of a row that gets deleted, without transaction() scopes: one
\* instance deletes and calls save_with_version, the other assigns, both save
\* and restore.
NextGone ==
    \/ SeedRow
    \/ Configure
    \/ \E t \in Nesting : Delete(t) \/ SaveWithVersion(t)
    \/ \E t \in Threads \ Nesting : SetField(t)
    \/ \E t \in Threads :
         \/ LoadColumns(t) \/ LoadData(t)
         \/ Save(t) \/ RestoreSoftDeleted(t)
         \/ OpEnd(t) \/ Catch(t)

SpecGone == Init /\ [][NextGone]_vars

\* Entities of a row that is soft-deleted and restored, one of the threads
\* also inside transaction() scopes.
NextSoft ==
    \/ SeedRow
    \/ Configure
    \/ \E t \in Nesting : TxEnter(t) \/ \E raised \in BOOLEAN : ScopeExit(t, raised)
    \/ \E t \in Threads :
         \/ LoadColumns(t) \/ LoadData(t)
         \/ SoftDeleteDdl(t) \/ SoftDeleteInvalidate(t) \/ SoftDeleteUpdate(t)
         \/ RestoreSoftDeleted(t)
         \/ OpEnd(t) \/ Catch(t)

SpecSoft == Init /\ [][NextSoft]_vars

\* ---------------------------------------------------------------- field maps
\* The field a write carries holds 0 when the call is made; before-hook h, if
\* it assigns to the field, stores h in the map it is handed.
HookedValue(order, setters, v) ==
    LET at == {i \in 1..Len(order) : order[i] \in setters}
    IN IF at = {} THEN v ELSE order[CHOOSE i \in at : \A j \in at : j <= i]

\* What the INSERT of a write path is given for a field: create takes
\* list(kwargs.values()) after _run_before_hooks; bulk_create has built its
\* values list from the rows before it runs the before-hooks.
InsertedValue(o, given, hooked) == IF o = "bulk_create" THEN given ELSE hooked

\* create(table, a=0) / bulk_create(table, [{a: 0}]) with the before-hooks in
\* setters assigning to the field: what is inserted and what the after-hooks
\* are handed (the same map object the before-hooks changed).
WriteFields ==
    /\ \E o \in {"create", "bulk_create"}, setters \in SUBSET (1..(nextHook - 1)) :
         LET hooked == HookedValue(HookOrder(beforeHooks, "t"), setters, 0)
         IN fields' = [done |-> TRUE, op |-> o, given |-> 0, hooked |-> hooked,
                       written |-> InsertedValue(o, 0, hooked), after |-> hooked]
    /\ UNCHANGED <<cfgVars, thrVars, dbVars, cacheVars, now, typed, hookVars, pipeVars,
                   effect, ent, goc, mig, stream,
                   logger, trip>>

NextFields ==
    \/ \E table \in RegisterArgs : RegisterBefore(table)
    \/ WriteFields

SpecFields == Init /\ [][NextFields]_vars

\* ---------------------------------------------------------------- get_or_create
\* The rows of S that match the conditions of the get_or_create calls: the
\* rows those calls inserted (the table has no such row at first).
Matching(S) == {w \in S : effect[w].kind = "insert"}

\* get_or_create, inside its transaction() scope: get_by(table, **conditions),
\* a SELECT on the bound connection.
GocFind(t) ==
    /\ goc[t].pc = "entered" /\ InTransaction(t) /\ exc[t] = "none"
    /\ LET c == localConn[t]
           hit == Matching(Visible(conns[c]).rows) # {}
       IN /\ ~DmlBlocked(c) /\ ~conns[c].failed
          /\ foreignUse' = (foreignUse \/ Foreign(t, c))
          /\ goc' = [goc EXCEPT ![t].pc = IF hit THEN "found" ELSE "missing"]
    /\ UNCHANGED <<cfgVars, localConn, depth, frames, exc, op, txW, dbVars, now,
                   cacheVars, typed, hookVars, pipeVars, effect, ent, fields, mig, stream,
                   logger, trip>>

\* get_or_create found no row: create(table, **defaults, **conditions), its
\* INSERT on the bound connection; the call will report created = True.
GocCreate(t) ==
    /\ goc[t].pc = "missing" /\ InTransaction(t) /\ exc[t] = "none"
    /\ calls < MaxCalls
    /\ LET c == localConn[t]
           x == PgExecute(conns[c], calls + 1, "ok")
       IN /\ ~DmlBlocked(c) /\ ~x.err
          /\ foreignUse' = (foreignUse \/ Foreign(t, c))
          /\ conns' = [conns EXCEPT ![c] = x.cs]
          /\ calls' = calls + 1
          /\ effect' = [effect EXCEPT ![x.w] = [kind |-> "insert", ver |-> 0, del |-> "keep"]]
          /\ txW' = [txW EXCEPT ![t] = @ \cup {x.w}]
          /\ frames' = [frames EXCEPT ![t][Len(frames[t])].ws = @ \cup {x.w}]
          /\ goc' = [goc EXCEPT ![t] = [pc |-> "made", created |-> TRUE]]
    /\ UNCHANGED <<cfgVars, localConn, depth, exc, op, committed, now, cacheVars, typed,
                   hookVars, pipeVars, ent, fields, mig, stream,
                   logger, trip>>

\* get_or_create: `with cls.transaction():` is entered, and left by the return
\* statements in its body.  No statement of the calls fails here.
GocScope(t) ==
    \/ /\ goc[t].pc = "none" /\ frames[t] = <<>>
       /\ TxEnter(t)
    \/ /\ goc[t].pc \in {"found", "made"} /\ exc[t] = "none"
       /\ ScopeExit(t, FALSE)

\* The call notes that its scope is open (the body starts), or returns.
GocStep(t) ==
    /\ \/ goc[t].pc = "none" /\ InTransaction(t)
          /\ goc' = [goc EXCEPT ![t].pc = "entered"]
       \/ goc[t].pc \in {"found", "made"} /\ ~InTransaction(t)
          /\ goc' = [goc EXCEPT ![t].pc = "returned"]
    /\ UNCHANGED <<cfgVars, thrVars, dbVars, now, cacheVars, typed, hookVars, pipeVars,
                   effect, ent, fields, mig, stream,
                   logger, trip>>

NextGoc ==
    \/ Configure
    \/ \E t \in Threads :
         GocScope(t) \/ GocStep(t) \/ GocFind(t) \/ GocCreate(t) \/ Catch(t)

SpecGoc == Init /\ [][NextGoc]_vars

\* ---------------------------------------------------------------- migrations
\* Migrations are named 1, 2, ... in registration order.  mig.table is the
\* ledger table schema_migrations: "absent", "plain" (there, without a
\* constraint named schema_migrations_name_key) or "keyed" (with it).

\* The rows of S a statement of the given kind wrote for migration i.
RowsOf(S, kind, i) == {w \in S : effect[w].kind = kind /\ effect[w].ver = i}

\* The names in the ledger, as committed.
Ledger == {i \in 1..MaxMigrations : RowsOf(committed.rows, "ledger", i) # {}}

\* The schema_migrations table found at the start, when there is one.
SeedLedger ==
    /\ Unconfigured /\ mig = NoMig
    /\ \E table \in {"plain", "keyed"} : mig' = [mig EXCEPT !.table = table]
    /\ UNCHANGED <<cfgVars, thrVars, dbVars, now, cacheVars, typed, hookVars, pipeVars,
                   effect, ent, fields, goc, stream,
                   logger, trip>>

\* add_migration(name, fn)
AddMigration ==
    /\ mig.pc = "none" /\ mig.ret = "none" /\ mig.n < MaxMigrations
    /\ mig' = [mig EXCEPT !.n = @ + 1]
    /\ UNCHANGED <<cfgVars, thrVars, dbVars, now, cacheVars, typed, hookVars, pipeVars,
                   effect, ent, fields, goc, stream,
                   logger, trip>>

\* CREATE TABLE IF NOT EXISTS schema_migrations (id SERIAL PRIMARY KEY, name
\* TEXT UNIQUE NOT NULL, ...): the store names the column's unique constraint
\* schema_migrations_name_key.
CreateMigrationTable(table) == IF table = "absent" THEN "keyed" ELSE table

\* add_unique("schema_migrations", ["name"], name="schema_migrations_name_key"):
\* ALTER TABLE ... ADD CONSTRAINT, an error when a relation of that name exists.
AddUnique(table) == [table |-> "keyed", err |-> table = "keyed"]

\* the loop of run_migrations going on to the next migration after a failure
AfterRaiseSkips(m) == [m EXCEPT !.pc = "loop", !.i = @ + 1, !.failed = m.i]

\* An exception leaves run_migrations: the loop is over.
AfterRaise(m) == [m EXCEPT !.pc = "none", !.failed = m.i, !.ret = "raised"]

\* run_migrations(), outside a transaction, up to its loop:
\* _ensure_migration_table() and the SELECT of the ledger, each statement in
\* its own _get_cursor scope.
MigBegin(t) ==
    /\ mig.pc = "none" /\ exc[t] = "none" /\ op[t] = NoOp /\ ~InTransaction(t)
    /\ LET r == CurrentConnection(t)
           u == AddUnique(CreateMigrationTable(mig.table))
       IN IF r.err # "none"
          THEN /\ exc' = Raise(t, r.err)
               /\ mig' = [mig EXCEPT !.ret = "raised", !.failed = 0]
          ELSE /\ exc' = IF u.err THEN Raise(t, "Error") ELSE exc
               /\ mig' = IF u.err
                         THEN [mig EXCEPT !.table = u.table, !.ret = "raised", !.failed = 0]
                         ELSE [mig EXCEPT !.table = u.table, !.pc = "loop", !.i = 1,
                                          !.done = Ledger, !.failed = 0, !.ret = "none"]
    /\ UNCHANGED <<cfgVars, localConn, depth, frames, op, txW, foreignUse, dbVars, now,
                   cacheVars, typed, hookVars, pipeVars, effect, ent, fields, goc, stream,
                   logger, trip>>

\* The loop: migrations in done are passed over; for the next one
\* `with cls.transaction():` binds a connection; after the last one the call
\* returns.
MigEnter(t) ==
    /\ mig.pc = "loop" /\ ~InTransaction(t)
    /\ LET todo == {k \in mig.i..mig.n : k \notin mig.done}
           r == CurrentConnection(t)
       IN IF todo = {}
          THEN /\ mig' = [mig EXCEPT !.pc = "none", !.ret = "ok"]
               /\ UNCHANGED <<pool, localConn, depth, frames, txW, exc>>
          ELSE IF r.err # "none"
          THEN /\ exc' = Raise(t, r.err)
               /\ mig' = [mig EXCEPT !.pc = "none", !.ret = "raised"]
               /\ UNCHANGED <<pool, localConn, depth, frames, txW>>
          ELSE /\ pool' = r.pool
               /\ localConn' = [localConn EXCEPT ![t] = r.conn]
               /\ depth' = [depth EXCEPT ![t] = 1]
               /\ frames' = [frames EXCEPT ![t] = <<Frame("tx", TRUE, r.conn, NoName)>>]
               /\ txW' = [txW EXCEPT ![t] = {}]
               /\ mig' = [mig EXCEPT !.pc = "fn",
                                     !.i = CHOOSE k \in todo : \A j \in todo : k <= j]
               /\ UNCHANGED exc
    /\ UNCHANGED <<connection, nextConn, closedConns, lastCall, op, foreignUse, dbVars, now,
                   cacheVars, typed, hookVars, pipeVars, effect, ent, fields, goc, stream,
                   logger, trip>>

\* A statement of run_migrations inside the scope, on the bound connection:
\* the procedure fn() (it writes a row; raises: it then raises), then, if fn
\* returned, the INSERT of the name into schema_migrations.
MigStmt(t, raises) ==
    /\ mig.pc \in {"fn", "ledger"} /\ InTransaction(t)
    /\ calls < MaxCalls
    /\ raises => mig.pc = "fn"
    /\ LET c == localConn[t]
           x == PgExecute(conns[c], calls + 1, "ok")
       IN /\ ~x.err
          /\ conns' = [conns EXCEPT ![c] = x.cs]
          /\ calls' = calls + 1
          /\ effect' = [effect EXCEPT ![x.w] =
                 [kind |-> IF mig.pc = "fn" THEN "migrated" ELSE "ledger", ver |-> mig.i,
                  del |-> "keep"]]
          /\ txW' = [txW EXCEPT ![t] = @ \cup {x.w}]
          /\ frames' = [frames EXCEPT ![t][Len(frames[t])].ws = @ \cup {x.w}]
          /\ foreignUse' = (foreignUse \/ Foreign(t, c))
          /\ exc' = IF raises THEN Raise(t, "Error") ELSE exc
          /\ mig' = [mig EXCEPT !.pc = IF raises THEN "abort"
                                       ELSE IF mig.pc = "fn" THEN "ledger" ELSE "exit"]
    /\ UNCHANGED <<cfgVars, localConn, depth, op, committed, now, cacheVars, typed,
                   hookVars, pipeVars, ent, fields, goc, stream,
                   logger, trip>>

\* The transaction() scope of a migration is left: normally after the ledger
\* INSERT, with the exception when fn raised.
MigScope(t) ==
    \/ mig.pc = "exit" /\ ScopeExit(t, FALSE)
    \/ mig.pc = "abort" /\ ScopeExit(t, TRUE)

\* After the scope: the loop goes on, or the exception leaves run_migrations.
MigLoop(t) ==
    /\ mig.pc \in {"exit", "abort"} /\ ~InTransaction(t)
    /\ mig' = IF exc[t] # "none" THEN AfterRaise(mig)
              ELSE [mig EXCEPT !.pc = "loop", !.i = @ + 1]
    /\ UNCHANGED <<cfgVars, thrVars, dbVars, now, cacheVars, typed, hookVars, pipeVars,
                   effect, ent, fields, goc, stream,
                   logger, trip>>

\* run_migrations() called by one thread, again and again, each time with its
\* exception caught by the caller.
NextMig ==
    \/ SeedLedger
    \/ Configure
    \/ AddMigration
    \/ \E t \in Nesting :
         \/ MigBegin(t) \/ MigEnter(t)
         \/ \E raises \in BOOLEAN : MigStmt(t, raises)
         \/ MigScope(t) \/ MigLoop(t)
         \/ mig.pc = "none" /\ Catch(t)

SpecMig == Init /\ [][NextMig]_vars

\* ---------------------------------------------------------------- stream_query
\* A generator: its body runs up to the first yield at the first next(), and
\* from the last yield to its end when it is drained, closed or hit by an
\* error of the store.  stream[t] is the generator thread t consumes.

\* finally: if not cls._in_transaction(): cls._release_connection(conn)
StreamRelease(p, inTx, c) == ReleaseConnection(p, inTx, c)

\* stream_query(...) up to its first yield, called outside a transaction:
\* conn = cls._current_connection(), a named cursor, execute.
StreamStart(t) ==
    /\ stream[t].pc # "open" /\ exc[t] = "none" /\ op[t] = NoOp /\ ~InTransaction(t)
    /\ LET r == CurrentConnection(t)
       IN IF r.err # "none"
          THEN /\ exc' = Raise(t, r.err)
               /\ UNCHANGED <<pool, stream, foreignUse>>
          ELSE /\ pool' = r.pool
               /\ stream' = [stream EXCEPT ![t] = [pc |-> "open", conn |-> r.conn]]
               /\ foreignUse' = (foreignUse \/ Foreign(t, r.conn))
               /\ UNCHANGED exc
    /\ UNCHANGED <<connection, nextConn, closedConns, lastCall, localConn, depth, frames, op,
                   txW, dbVars, now, cacheVars, typed, hookVars, pipeVars, effect, ent,
                   fields, goc, mig, logger, trip>>

\* The rest of the generator.  how = "drained": fetchmany returned no rows,
\* commit unless the thread is in a transaction; "raised": the store reported
\* an error, rollback unless in a transaction, re-raise; "closed": the
\* consumer dropped the generator, GeneratorExit passes `except Exception`.
\* Then the finally block.
StreamEnd(t, how) ==
    /\ stream[t].pc = "open"
    /\ LET c == stream[t].conn
           own == ~InTransaction(t)
       IN /\ committed' = IF how = "drained" /\ own
                          THEN Join(committed, CommitSet(conns[c])) ELSE committed
          /\ conns' = IF how # "closed" /\ own THEN [conns EXCEPT ![c] = CleanConn] ELSE conns
          /\ pool' = StreamRelease(pool, InTransaction(t), c)
          /\ exc' = IF how = "raised" THEN Raise(t, "Error") ELSE exc
          /\ stream' = [stream EXCEPT ![t].pc = how]
    /\ UNCHANGED <<connection, nextConn, closedConns, lastCall, localConn, depth, frames, op,
                   txW, foreignUse, calls, now, cacheVars, typed, hookVars, pipeVars, effect,
                   ent, fields, goc, mig, logger, trip>>

\* Threads consume streams; one of them enters and leaves transaction()
\* scopes meanwhile.
NextStream ==
    \/ Configure
    \/ \E t \in Nesting : TxEnter(t) \/ \E raised \in BOOLEAN : ScopeExit(t, raised)
    \/ \E t \in Threads :
         \/ StreamStart(t)
         \/ \E how \in {"drained", "raised", "closed"} : StreamEnd(t, how)
         \/ Catch(t)

SpecStream == Init /\ [][NextStream]_vars

\* ---------------------------------------------------------------- close and reconnect
\* close() closes the connection objects; a thread inside a transaction()
\* scope, or inside a _get_cursor scope, still holds one.  Every call on a
\* closed connection raises InterfaceError.
Dead(c) == c \in closedConns

\* A statement through _get_cursor, as OpBegin, with close() in the picture.
Use(t) ==
    LET r == CurrentConnection(t)
    IN IF Unconfigured \/ (r.err = "none" /\ Dead(r.conn))
       THEN /\ exc[t] = "none" /\ op[t] = NoOp
            /\ exc' = Raise(t, IF Unconfigured THEN "RuntimeError" ELSE "InterfaceError")
            /\ UNCHANGED <<wrVars, cfgVars, localConn, depth, frames, op, txW, foreignUse,
                           dbVars, now, cacheVars>>
       ELSE OpBegin(t)

\* The end of a _get_cursor scope outside a transaction: on a closed
\* connection commit() raises, and so does the rollback() of the except block.
Finish(t) ==
    IF op[t] # NoOp /\ Dead(op[t].conn)
    THEN /\ conns' = [conns EXCEPT ![op[t].conn] = CleanConn]
         /\ exc' = Raise(t, "InterfaceError")
         /\ op' = [op EXCEPT ![t] = NoOp]
         /\ UNCHANGED <<wrVars, cfgVars, localConn, depth, frames, txW, foreignUse, committed,
                        calls, now, cacheVars>>
    ELSE OpEnd(t)

\* Leaving an outermost transaction() scope: on a closed connection commit()
\* or rollback() raises and the finally block unbinds the thread.
Leave(t, raised) ==
    IF frames[t] # <<>> /\ Dead(Top(t).conn)
    THEN /\ op[t] = NoOp /\ Top(t).outer
         /\ conns' = [conns EXCEPT ![Top(t).conn] = CleanConn]
         /\ exc' = Raise(t, IF raised THEN "Error" ELSE "InterfaceError")
         /\ localConn' = [localConn EXCEPT ![t] = None]
         /\ depth' = [depth EXCEPT ![t] = DepthAfterExit(TRUE, @)]
         /\ frames' = Pop(t, FALSE)
         /\ txW' = [txW EXCEPT ![t] = {}]
         /\ UNCHANGED <<wrVars, cfgVars, op, foreignUse, committed, calls, now, cacheVars>>
    ELSE ScopeExit(t, raised)

\* Threads run operations, one of them also flat transactions, while the
\* configuration is closed and set up again.
NextClose ==
    \/ Configure
    \/ ~Unconfigured /\ Close
    \/ \E t \in Nesting :
         \/ frames[t] = <<>> /\ TxEnter(t)
         \/ \E raised \in BOOLEAN : Leave(t, raised)
    \/ \E t \in Threads : Use(t) \/ Finish(t) \/ Catch(t)

SpecClose == Init /\ [][NextClose]_vars

\* ---------------------------------------------------------------- log sink
Sinks == {"none", "quiet", "raising"}   \* no sink, one that returns, one that raises

\* set_logger(fn)
SetLogger ==
    /\ \A t \in Threads : op[t] = NoOp
    /\ \E fn \in Sinks : logger' = fn
    /\ UNCHANGED <<cfgVars, thrVars, dbVars, now, cacheVars, typed, hookVars, pipeVars,
                   effect, ent, fields, goc, mig, stream, trip>>

\* a _log_sql that calls the sink outside any try block
LogSqlUnguarded(sink) ==
    IF sink = "none" THEN "skipped" ELSE IF sink = "raising" THEN "raised" ELSE "logged"

\* _log_sql(conn, query, params): how the call ends.  An exception of the
\* sink is caught and dropped.
LogSql(sink) ==
    IF sink = "none" THEN "skipped" ELSE IF sink = "raising" THEN "swallowed" ELSE "logged"

\* An operation's _get_cursor scope up to its statement: _log_sql, then
\* cur.execute as in OpBegin.  An exception leaving _log_sql would leave the
\* scope before the statement.
LoggedBegin(t) ==
    IF LogSql(logger) = "raised"
    THEN /\ exc[t] = "none" /\ op[t] = NoOp /\ ~Unconfigured
         /\ exc' = Raise(t, "SinkError")
         /\ UNCHANGED <<wrVars, cfgVars, localConn, depth, frames, op, txW, foreignUse, dbVars,
                        now, cacheVars>>
    ELSE OpBegin(t)

\* Operations inside and outside a flat transaction, with a sink installed
\* between operations.
NextLog ==
    \/ Configure
    \/ SetLogger
    \/ \E t \in Nesting :
         \/ frames[t] = <<>> /\ TxEnter(t)
         \/ \E raised \in BOOLEAN : ScopeExit(t, raised)
    \/ \E t \in Threads : LoggedBegin(t) \/ OpEnd(t) \/ Catch(t)

SpecLog == Init /\ [][NextLog]_vars

\* ---------------------------------------------------------------- round trip
\* One field of a create(): the value submitted, the column it goes to, and
\* what cls(table, new_id) loads back.  Values are named by their Python type.
TripValues == {"None", "bool", "int", "float", "str"}

\* The types a column of the table has when it exists already.
StoreTypes == {"TEXT", "BIGINT", "BOOLEAN", "DOUBLE PRECISION"}

\* The Python type psycopg2 returns for a non-null value of a column.
LoadedAs(typ) ==
    CASE typ \in {"BIGINT", "INTEGER"} -> "int"
      [] typ = "BOOLEAN" -> "bool"
      [] typ = "DOUBLE PRECISION" -> "float"
      [] OTHER -> "str"

\* INSERT of a value into a column of type typ: the store casts the literal to
\* the column's type in assignment context, or rejects it.  fits: the text of
\* a str is valid input for the type, a number is in the type's range.
Assigned(typ, v, fits) ==
    LET text == LoadedAs(typ) = "str"
        ok == CASE v = "None" -> TRUE
                [] v = "str" -> fits
                [] v = "int" -> (text \/ typ # "BOOLEAN") /\ fits
                [] v = "float" -> (text \/ typ # "BOOLEAN") /\ fits
                [] OTHER -> text \/ typ = "BOOLEAN"
    IN [err |-> ~ok, loaded |-> IF v = "None" THEN "None" ELSE LoadedAs(typ)]

\* create(table, column_types, infer_types, col = v) of one field, and the
\* load of the returned instance; had: the column's type, "" when the column
\* does not exist yet and create adds it.
CreateAndLoad ==
    /\ \E v \in TripValues, had \in {""} \cup StoreTypes, infer \in BOOLEAN,
          given \in BOOLEAN, fits \in BOOLEAN :
         \E explicit \in (IF given THEN ExplicitTypes ELSE {""}) :
            LET typ == IF had = "" THEN ColumnType(given, explicit, infer, v) ELSE had
                a == Assigned(typ, v, fits)
            IN trip' = [done |-> TRUE, value |-> v, had |-> had, explicit |-> explicit,
                        given |-> given, infer |-> infer, typ |-> typ,
                        err |-> a.err, loaded |-> IF a.err THEN "None" ELSE a.loaded]
    /\ UNCHANGED <<cfgVars, thrVars, dbVars, now, cacheVars, typed, hookVars, pipeVars,
                   effect, ent, fields, goc, mig, stream, logger>>

NextRound == CreateAndLoad

SpecRound == Init /\ [][NextRound]_vars

\* ================================================================ claims

\* A nested transaction() scope of t is left with an exception in this step.
NestedAbort(t) ==
    /\ frames[t] # <<>>
    /\ Top(t).kind = "tx" /\ ~Top(t).outer
    /\ Len(frames'[t]) < Len(frames[t])
    /\ exc'[t] # "none"

\* The outermost transaction() scope of t is left in this step.
OutermostExit(t) ==
    /\ frames[t] # <<>>
    /\ Top(t).outer
    /\ frames'[t] = <<>>

\* C1: when a nested transaction() scope aborts (on a connection no other
\* thread touched), every row written inside that scope is gone from the
\* connection's uncommitted work and every row written before it, in the
\* enclosing scopes, is still there; so begin, write A, nested begin, write B,
\* nested abort, outer commit persists A and not B.
C1_NestedAbortUndoesItsScopeOnly ==
    [][\A t \in Threads :
          (NestedAbort(t) /\ ~foreignUse')
          => LET f == Top(t)
                 c == f.conn
             IN /\ conns'[c].pending.rows \cap f.ws = {}
                /\ (conns[c].pending.rows \ f.ws) \subseteq conns'[c].pending.rows]_vars

\* C2: in pool mode every connection checked out of the pool is held by a
\* thread, as its transaction's connection or for its operation in flight: a
\* transaction that ended has returned its connection.
C2_ConnectionReturnedAfterScope ==
    \A c \in pool.used : \E t \in Threads : localConn[t] = c \/ op[t].conn = c

\* C3: when the outermost transaction() scope of a thread exits with an
\* exception none of the rows the thread wrote inside it is committed, and when
\* it exits normally all of them that no nested abort undid are committed.
C3_OutermostExitDecidesPersistence ==
    [][\A t \in Threads :
          OutermostExit(t)
          => IF exc'[t] # "none"
             THEN committed'.rows \cap txW[t] = {}
             ELSE Top(t).ws \subseteq committed'.rows]_vars

\* C4: no thread executes a statement, a commit or a rollback on a connection
\* that is bound to another thread's open transaction.
C4_BoundConnectionExclusive == ~foreignUse

\* C5: a thread's depth is 0 exactly when no connection is bound to it, and a
\* thread with no scope open is at depth 0 with no bound connection.
C5_DepthZeroIffUnbound ==
    \A t \in Threads :
        /\ (depth[t] = 0) <=> (localConn[t] = None)
        /\ frames[t] = <<>> => (depth[t] = 0 /\ localConn[t] = None)

\* C5 witness: in pool mode a transaction has ended (its connection is the one
\* still checked out), nothing is open, and a thread with an exception
\* propagating at top level is back at depth 0 with no bound connection.
C5_Witness ==
    /\ pool.used # {}
    /\ \A u \in Threads : frames[u] = <<>> /\ op[u] = NoOp
    /\ \E t \in Threads : exc[t] = "Error" /\ depth[t] = 0 /\ localConn[t] = None

\* C6: when an operation outside any transaction ends, its connection holds no
\* uncommitted work, the exception propagates exactly when the operation
\* raised, and in pool mode the connection is back in the pool and the row is
\* committed exactly when the operation succeeded.
C6_AutoCommitScope ==
    [][\A t \in Threads :
          (op[t] # NoOp /\ op'[t] = NoOp)
          => LET c == op[t].conn
             IN /\ conns'[c] = CleanConn
                /\ op[t].err <=> (exc'[t] # "none")
                /\ pool # NoPool
                   => /\ pool'.used = pool.used \ {c}
                      /\ c \in pool.used
                      /\ op[t].w # 0 => (op[t].w \in committed'.rows <=> ~op[t].err)]_vars

\* C6 witness: in pool mode one operation has committed its row and another
\* has raised after writing; both connections are back in the pool.
C6_Witness ==
    /\ pool # NoPool /\ pool.used = {}
    /\ calls = 2 /\ Cardinality(committed.rows) = 1
    /\ \A c \in ConnIds : conns[c] = CleanConn
    /\ \A t \in Threads : op[t] = NoOp

\* C7: an acquisition never fails because the pool is exhausted by connections
\* that other threads hold: the thread waits for one of them to be released.
C7_ExhaustedPoolWaits ==
    [][\A t \in Threads :
          ~ /\ exc[t] # "PoolError"
            /\ exc'[t] = "PoolError"
            /\ \A c \in pool.used :
                  \E u \in Threads \ {t} : localConn[u] = c \/ op[u].conn = c]_vars

\* C8: at most one of the single connection and the pool is set, and after
\* close() neither is.
C8_OneConfiguration ==
    /\ ~(connection # None /\ pool # NoPool)
    /\ lastCall = "close" => Unconfigured

\* C8 witness: close() after a pool and a single connection had been set up.
C8_Witness ==
    /\ lastCall = "close"
    /\ \E c, d \in closedConns : c # d
    /\ nextConn > 3

\* C9: with a TTL of 0 every lookup refetches: it never serves the cached entry
\* and returns the columns the store has now.
C9_TtlZeroAlwaysRefetches ==
    (lookup.done /\ lookup.ttl = 0) => (~lookup.hit /\ lookup.cols = lookup.store)

\* C10: with a TTL > 0 a lookup returns the cached columns while the entry's
\* age is below the TTL (a column added directly since is not among them), and
\* the store's current columns once the age has reached the TTL or when there
\* is no entry (after an invalidation).
C10_TtlBoundsStaleness ==
    (lookup.done /\ lookup.ttl > 0)
    => /\ (lookup.had /\ lookup.age < lookup.ttl)
          => (lookup.hit /\ lookup.cols = lookup.prev)
       /\ (lookup.had /\ lookup.age >= lookup.ttl)
          => (~lookup.hit /\ lookup.cols = lookup.store)
       /\ ~lookup.had => (~lookup.hit /\ lookup.cols = lookup.store)

\* C10 witness: the first lookup after the entry's age reached the TTL returns
\* a column that was added directly and that the expired entry did not have.
C10_Witness ==
    /\ lookup.done /\ lookup.ttl > 0
    /\ lookup.had /\ lookup.age >= lookup.ttl
    /\ "a" \in lookup.cols /\ "a" \notin lookup.prev

\* The type the claim gives for each class of value.
StatedType(v) ==
    CASE v = "bool" -> "BOOLEAN"
      [] v = "int" -> "BIGINT"
      [] v = "float" -> "DOUBLE PRECISION"
      [] v = "Decimal" -> "NUMERIC"
      [] v = "datetime" -> "TIMESTAMP"
      [] v = "date" -> "DATE"
      [] v \in {"dict", "list"} -> "JSONB"
      [] v \in {"bytes", "bytearray", "memoryview"} -> "BYTEA"
      [] OTHER -> "TEXT"

\* C16 as stated: a missing column gets the explicit type when column_types
\* supplies one, and otherwise the type inferred from the value.
C16_TypeOfMissingColumn ==
    typed.done
    => typed.typ = IF typed.given /\ typed.explicit # "" THEN typed.explicit
                   ELSE StatedType(typed.value)

\* C16 amended: a missing column gets the explicit type when column_types
\* supplies one; otherwise the type inferred from the value when infer_types is
\* true (the default), and TEXT when infer_types is false.
C16_TypeOfMissingColumnWhenInferring ==
    typed.done
    => typed.typ = IF typed.given /\ typed.explicit # "" THEN typed.explicit
                   ELSE IF typed.infer THEN StatedType(typed.value)
                   ELSE "TEXT"

\* C16 witness: a boolean with no explicit type became BOOLEAN, not BIGINT.
C16_Witness ==
    /\ typed.done /\ ~typed.given /\ typed.infer
    /\ typed.value = "bool" /\ typed.typ = "BOOLEAN"

\* The registry the last run read.
RunRegistry == IF hookRun.kind = "before" THEN beforeHooks ELSE afterHooks

\* C17: in a run of the hooks of a mutation on table T no hook registered for T
\* runs before a hook registered globally, hooks of the same group run in the
\* order of their registration, and when no hook stops the run it is all the
\* global hooks and then all the hooks of T.
C17_GlobalHooksFirstInRegistrationOrder ==
    [][hookRun' # hookRun
       => LET ran == hookRun'.ran
              glob == Range(RunRegistry'["*"])
              own == Range(RunRegistry'[hookRun'.table])
          IN /\ \A i, j \in 1..Len(ran) :
                   i < j => /\ ~(ran[i] \in own /\ ran[j] \in glob)
                            /\ (ran[i] \in glob <=> ran[j] \in glob) => ran[i] < ran[j]
             /\ Range(ran) \subseteq glob \cup own
             /\ ~hookRun'.err => Range(ran) = glob \cup own]_vars

\* C17 witness: a table hook registered before a global hook ran after it.
C17_Witness ==
    /\ hookRun.done /\ Len(hookRun.ran) >= 2
    /\ \E i, j \in 1..Len(hookRun.ran) :
         /\ i < j /\ hookRun.ran[i] > hookRun.ran[j]
         /\ hookRun.ran[i] \in Range(RunRegistry["*"])
         /\ hookRun.ran[j] \in Range(RunRegistry[hookRun.table])

\* The write call of t returns normally in this step.
Returns(t) == ~Idle(t) /\ call'[t].pc = "done"

\* The write call of t drops the table's cache entry in this step.
Invalidates(t) == call[t].pc = "inval" /\ call'[t].pc \notin {"inval", "failed"}

C12_InvalidateAfterCommit ==
    [][\A t \in Threads :
          (Invalidates(t) /\ call[t].changed) => call[t].col \in committed.cols]_vars

\* C13: no step drops a column of the committed schema or changes its type,
\* and a column a session sees keeps its type for as long as the session sees
\* it.
C13_ColumnsOnlyAdded ==
    [][/\ committed.cols \subseteq committed'.cols
       /\ \A col \in Columns :
             colType'[col] # colType[col]
             => /\ col \notin committed.cols
                /\ \A c \in ConnIds :
                      ~(col \in Visible(conns[c]).cols /\ col \in Visible(conns'[c]).cols)]_vars

\* C13 witness: the column is committed as BIGINT and a later write that
\* carries a text value for it has executed its INSERT.
C13_Witness ==
    /\ "a" \in committed.cols /\ colType["a"] = "BIGINT"
    /\ \E t \in Threads :
         /\ call[t].typ = "TEXT" /\ call[t].w # 0
         /\ call[t].pc \in {"after", "ret", "load", "read"}

\* C14: an add-column step that finds the column missing materializes it with
\* the thread's type, one that finds it present succeeds without changing its
\* type, and the INSERT of a call that ran an add-column step finds the column.
C14_OneTypeMaterialized ==
    [][\A t \in Threads :
          /\ (call[t].pc = "ddl" /\ call'[t].pc = "inval" /\ ~op'[t].err)
             => LET c == call'[t].conn
                    col == call[t].col
                IN /\ col \in Visible(conns'[c]).cols
                   /\ IF col \in Visible(conns[c]).cols
                      THEN colType'[col] = colType[col] /\ ~call'[t].changed
                      ELSE colType'[col] = call[t].typ /\ call'[t].changed
          /\ (call[t].pc = "stmt" /\ call'[t].pc # "stmt" /\ call[t].missing
              /\ CurrentConnection(t).err = "none")
             => call[t].col \in Visible(conns[CurrentConnection(t).conn]).cols]_vars

\* C14 witness: both threads ran an add-column step for the column with
\* different types; one materialized it and the other's step was a no-op.
C14_Witness ==
    \E t, u \in Threads :
        /\ t # u
        /\ call[t].pc \in {"before", "stmt"} /\ call[u].pc \in {"before", "stmt"}
        /\ call[t].missing /\ call[u].missing
        /\ call[t].changed /\ ~call[u].changed
        /\ call[t].typ # call[u].typ
        /\ colType["a"] = call[t].typ
        /\ "a" \in committed.cols

\* The before-hooks of the table, in the order they are called.
BeforeOrder == HookOrder(beforeHooks, "t")

AfterOrder == HookOrder(afterHooks, "t")

\* C18: when a before-hook raises, the hooks after it are not run, the call
\* ends with the error without executing its INSERT or committing anything,
\* and an enclosing transaction left with that error rolls back.
C18_BeforeHookAbortsWrite ==
    [][\A t \in Threads :
          /\ (call[t].pc = "before" /\ call'[t] # call[t]
              /\ hookRun'.done /\ hookRun'.kind = "before"
              /\ hookRun'.bad \cap Range(BeforeOrder) # {})
             => /\ call'[t].pc = "failed"
                /\ exc'[t] = "RuntimeError"
                /\ hookRun'.ran = SubSeq(BeforeOrder, 1, FirstBad(BeforeOrder, hookRun'.bad))
                /\ committed' = committed /\ conns' = conns /\ calls' = calls
                /\ \A i \in 1..Len(call'[t].log) : call'[t].log[i] # "stmt"
          /\ (OutermostExit(t) /\ exc[t] = "RuntimeError")
             => /\ committed' = committed
                /\ conns'[Top(t).conn] = CleanConn
                /\ exc'[t] = "RuntimeError"]_vars

\* C18 witness: the first of two before-hooks raised inside a pooled
\* transaction, the second did not run, and the transaction was left with the
\* error.
C18_Witness ==
    /\ hookRun.done /\ hookRun.kind = "before" /\ hookRun.err
    /\ Len(hookRun.ran) = 1 /\ Len(BeforeOrder) = 2
    /\ \E t \in Threads :
         /\ call[t].pc = "failed" /\ exc[t] = "RuntimeError"
         /\ frames[t] = <<>> /\ localConn[t] = None
    /\ pool.used # {}
    /\ committed.rows = {}

\* C19: when after-hooks raise, all after-hooks still run in order, no error
\* propagates, the written row stays as it was, and the call goes on to its
\* normal result.
C19_AfterHookErrorsSwallowed ==
    [][\A t \in Threads :
          (call[t].pc = "after" /\ exc[t] = "none" /\ call'[t] # call[t])
          => /\ exc'[t] = "none"
             /\ call'[t].pc \in {"load", "done"}
             /\ AfterOrder # <<>> => (hookRun'.kind = "after" /\ hookRun'.ran = AfterOrder)
             /\ committed' = committed /\ conns' = conns]_vars

\* C19 witness: the first of two after-hooks raised, both ran, and the call
\* returned with its row committed.
C19_Witness ==
    /\ hookRun.done /\ hookRun.kind = "after"
    /\ Len(hookRun.ran) = 2 /\ hookRun.ran[1] \in hookRun.bad
    /\ \E t \in Threads : call[t].pc = "done" /\ exc[t] = "none"
    /\ committed.rows # {}

\* The stages of a write call, in order; the creation of columns is skipped
\* when none is missing.
PipelineLogs ==
    {<<"lookup", "before", "stmt", "after">>,
     <<"lookup", "ddl", "before", "stmt", "after">>}

\* C20: every create, upsert and bulk_create call that returns has gone
\* through schema lookup, creation of missing columns, before-hooks, statement
\* and after-hooks, in this order.
C20_WritePipelineOrder ==
    [][\A t \in Threads :
          (Returns(t) /\ call[t].op \in {"create", "upsert", "bulk_create"})
          => call'[t].log \in PipelineLogs]_vars

\* C15: in the state a call of ensure_columns leaves, a second call with the
\* same arguments ends as the first did and leaves the committed schema, the
\* column types and the cache entry as they are.
C15_EnsureColumnsIdempotent ==
    [][\A t \in Threads, col \in Columns, typ \in EnsureTypes :
          (/\ call'[t] # call[t]
           /\ call'[t].op = "ensure_columns" /\ call'[t].missing
           /\ call'[t].col = col /\ call'[t].typ = typ)
          => LET again == EnsureSets(t, col, typ)'
             IN /\ again.committed = committed'
                /\ again.types = colType'
                /\ again.cache = schemaCache'
                /\ (again.err = "none") = (call'[t].pc = "done")]_vars

\* C15 witness: a second ensure_columns call for a column that an earlier call
\* added with the same type has returned; the column is committed with that
\* type and the table has no cache entry.
C15_Witness ==
    \E t \in Threads :
        /\ call[t].op = "ensure_columns" /\ call[t].pc = "done"
        /\ call[t].missing /\ ~call[t].changed
        /\ started = 2
        /\ call[t].col \in committed.cols
        /\ colType[call[t].col] = call[t].typ
        /\ schemaCache = NoEntry

\* The save_with_version call of t reaches its UPDATE in this step.
VersionedSave(t) == ent'[t].tries # ent[t].tries /\ ent'[t].tries > 0

\* Entity instances t and u were loaded at the same stored version and each
\* has made one save_with_version call, which has returned.
RacedOnce(t, u) ==
    /\ t # u
    /\ ent[t].tries = 1 /\ ent[u].tries = 1
    /\ ent[t].at = ent[u].at
    /\ op[t] = NoOp /\ op[u] = NoOp

\* C22: of the save_with_version calls of entity instances loaded at the same
\* stored version v exactly one returns True, and the stored version is then
\* v + 1; a call that returns False raises nothing and changes nothing in the
\* store, one that returns True found the version it was loaded at.
C22_OneVersionedSaveWins ==
    [][/\ \A t, u \in Threads :
             RacedOnce(t, u)'
             => /\ (ent'[t].ret = "True") # (ent'[u].ret = "True")
                /\ StoredRow'.version = ent'[t].at + 1
       /\ \A t \in Threads :
             VersionedSave(t)
             => IF ent'[t].ret = "True"
                THEN SeenRow(t).version = ent[t].version
                ELSE /\ exc' = exc /\ ~op'[t].err
                     /\ committed' = committed /\ conns' = conns]_vars

\* C22 witness: with a pool, two instances loaded at version 0 have each
\* called save_with_version; one got True, the other False, and the stored
\* version is 1.
C22_Witness ==
    /\ pool # NoPool
    /\ RacedOnce("t1", "t2")
    /\ ent["t1"].at = 0
    /\ ent["t1"].ret = "False" /\ ent["t2"].ret = "True"
    /\ StoredRow.version = 1

\* The version the committed row carries changes in this step.
VersionChanges ==
    StoredRow.exists /\ StoredRow'.exists /\ StoredRow'.version # StoredRow.version

\* The step commits the UPDATE of a save_with_version call of t that found its
\* version.
VersionedCommit(t) ==
    /\ op[t].w \in committed'.rows \ committed.rows
    /\ effect[op[t].w].kind = "bump"
    /\ ent[t].ret = "True"

\* C23: whatever the entity instances of a row do (assignment, save,
\* save_with_version, soft_delete, restore), the stored version changes only
\* by the +1 of a save_with_version call that returned True, so it never
\* decreases.
C23_VersionOnlyAdvances ==
    [][VersionChanges
       => /\ StoredRow'.version = StoredRow.version + 1
          /\ \E t \in Threads : VersionedCommit(t)]_vars

\* The delete of the row has been committed.
Gone == committed.rows # {} /\ ~StoredRow.exists

\* C26: once a delete() of the row is committed, the row stays absent whatever
\* the entity instances do next (restore, assignment, save, save_with_version),
\* no listing returns it, with or without exclude_deleted, and _load_data (a
\* refresh or a new load) raises the not-found ValueError, unless the call
\* got no connection.
C26_DeletedRowStaysGone ==
    /\ [](Gone => \A t \in Threads : \A x \in BOOLEAN : Lists(t, x) # "in")
    /\ [][Gone
          => /\ Gone'
             /\ \A t \in Threads :
                   LoadData(t) => exc'[t] \in {"ValueError", "PoolError"}]_vars

\* C26 witness: the delete is committed, an instance that knows the soft-delete
\* columns has called restore_soft_deleted, and a load of the row has raised
\* ValueError.
C26_Witness ==
    /\ Gone
    /\ \E t \in Threads : KnowsSoft(ent[t]) /\ ent[t].ret = "restore"
    /\ \E t \in Threads : exc[t] = "ValueError"

\* The call named by ret returns to t in this step without an exception.
EntityReturns(t, ret) ==
    /\ ent'[t].ret = ret /\ ent'[t].pc = "ready" /\ op'[t] = NoOp /\ exc'[t] = "none"
    /\ ent[t].ret # ret \/ op[t] # NoOp

\* C24: when soft_delete() returns, a listing by the caller with
\* exclude_deleted=False still has the row and a default listing
\* (exclude_deleted=True) does not, whether or not the table had the deleted
\* columns and whatever the schema cache held.
C24_SoftDeletedRowHidden ==
    [][\A t \in Threads :
          EntityReturns(t, "soft_delete")
          => Lists(t, FALSE)' = "in" /\ Lists(t, TRUE)' = "out"]_vars

\* C25: when restore_soft_deleted() returns on an instance of a row that is
\* stored as soft-deleted, a default listing by the caller has the row again.
C25_RestoredRowListed ==
    [][\A t \in Threads :
          StoredRow.exists /\ StoredRow.deleted /\ EntityReturns(t, "restore")
          => Lists(t, TRUE)' = "in"]_vars

\* C21: what create and bulk_create insert for a field is the value the field
\* map holds after all before-hooks have run, and the after-hooks are handed
\* that written value.
C21_HookedFieldsWritten ==
    fields.done => fields.written = fields.hooked /\ fields.after = fields.written

\* C27: get_or_create calls with the same conditions, made while no matching
\* row exists, leave at most one matching row, and when all of them have
\* returned exactly one has reported created = True.
C27_GetOrCreateAtomic ==
    /\ Cardinality(Matching(committed.rows)) <= 1
    /\ (\A t \in Threads : goc[t].pc = "returned")
       => Cardinality({t \in Threads : goc[t].created}) = 1

\* The rows the procedure of migration i wrote, as committed.
Migrated(i) == RowsOf(committed.rows, "migrated", i)

\* C28: a migration's writes and its ledger row are committed together or not
\* at all; when a procedure raises nothing of that migration is persisted,
\* nothing more is executed or committed by that call, and what was committed
\* before stays committed.
C28_MigrationAtomic ==
    /\ [](\A i \in 1..MaxMigrations : (Migrated(i) # {}) <=> (i \in Ledger))
    /\ [][/\ committed.rows \subseteq committed'.rows
          /\ \A i \in 1..MaxMigrations :
                (mig'.failed = i /\ mig.failed = 0) => i \notin Ledger' /\ Migrated(i)' = {}
          /\ mig.failed # 0 => effect' = effect /\ committed' = committed]_vars

\* Migration 1 is applied and recorded; in a later step of the call the
\* procedure of migration 2 wrote a row and raised.
C28_Witness ==
    /\ mig.failed = 2 /\ mig.ret = "raised"
    /\ 1 \in Ledger /\ Migrated(1) # {}
    /\ \E w \in 1..calls : /\ effect[w] = [kind |-> "migrated", ver |-> 2, del |-> "keep"]
                           /\ w \notin committed.rows

\* C29: no migration's procedure is committed twice, and a run_migrations()
\* call that starts when every registered migration is in the ledger raises
\* nothing and runs no procedure.
C29_MigrationRunsOnce ==
    /\ [](\A i \in 1..MaxMigrations : Cardinality(Migrated(i)) <= 1)
    /\ [][\A t \in Nesting :
            /\ (MigBegin(t) /\ ~Unconfigured /\ (1..mig.n) \subseteq Ledger)
                  => exc'[t] = "none" /\ mig'.pc = "loop"
            /\ (mig.pc = "loop" /\ (1..mig.n) \subseteq mig.done) => mig'.pc # "fn"]_vars

\* C30: in pool mode a stream holds its borrowed connection while it is open,
\* and the step that ends it (drained, closed or failed) puts that connection
\* back into the pool, whatever transaction() scope the thread is in by then.
C30_StreamReturnsConnection ==
    /\ [](pool # NoPool =>
            \A t \in Threads : stream[t].pc = "open" => stream[t].conn \in pool.used)
    /\ [][pool # NoPool =>
            \A t \in Threads : \A how \in {"drained", "closed"} :
                StreamEnd(t, how) => stream[t].conn \notin pool'.used]_vars

\* A step thread t takes while inside its transaction: a scope entered, a
\* statement issued, a nested scope left.
InnerStep(t) ==
    /\ InTransaction(t)
    /\ \/ TxEnter(t) \/ SpEnter(t) \/ OpBegin(t)
       \/ Len(frames[t]) > 1 /\ (ScopeExit(t, FALSE) \/ ScopeExit(t, TRUE))

\* C33: whatever a thread does inside its transaction (nested transaction(),
\* savepoint(), statements, leaving nested scopes) keeps its bound connection,
\* touches no session but that connection's, leaves every open scope on that
\* connection and leaves the pool's checked-out set as it is.
C33_NestingKeepsConnection ==
    [][\A t \in Threads : InnerStep(t) =>
          /\ localConn'[t] = localConn[t]
          /\ pool' = pool
          /\ \A c \in ConnIds \ {localConn[t]} : conns'[c] = conns[c]
          /\ \A i \in 1..Len(frames'[t]) : frames'[t][i].conn = localConn[t]]_vars

\* In pool mode a thread is two scopes deep, has written a row there, and one
\* connection is checked out.
C33_Witness ==
    \E t \in Threads :
        /\ pool # NoPool /\ pool.used = {localConn[t]}
        /\ depth[t] = 2 /\ Len(frames[t]) = 2
        /\ Top(t).ws # {}

\* C34: the savepoints open on a connection all have different names.
C34_SavepointNamesUnique ==
    \A c \in ConnIds : \A i, j \in 1..Len(conns[c].sps) :
        i # j => conns[c].sps[i].name # conns[c].sps[j].name

\* C35: savepoint() outside a transaction raises RuntimeError, issues no
\* statement and takes no connection; inside a transaction entering and
\* leaving it changes neither the thread's depth nor its bound connection.
C35_SavepointNeedsTransaction ==
    [][\A t \in Threads :
          /\ (SpEnter(t) /\ ~InTransaction(t))
                => /\ exc'[t] = "RuntimeError"
                   /\ conns' = conns /\ pool' = pool
                   /\ localConn' = localConn /\ depth' = depth
          /\ (SpEnter(t) /\ InTransaction(t))
                => depth'[t] = depth[t] /\ localConn'[t] = localConn[t]
          /\ (/\ frames[t] # <<>> /\ Top(t).kind = "sp"
              /\ (ScopeExit(t, FALSE) \/ ScopeExit(t, TRUE)))
                => depth'[t] = depth[t] /\ localConn'[t] = localConn[t]]_vars

\* A savepoint() scope is open inside a transaction of depth 1.
C35_Witness ==
    \E t \in Threads :
        /\ Len(frames[t]) = 2 /\ Top(t).kind = "sp"
        /\ depth[t] = 1 /\ localConn[t] # None
        /\ Len(conns[localConn[t]].sps) = 1

\* The names of the savepoints of the scopes thread t is inside, outermost first.
ScopeNames(t) == [i \in 1..(Len(frames[t]) - 1) |-> frames[t][i + 1].name]

\* The names of the savepoints open on a session, oldest first.
OpenNames(cs) == [i \in 1..Len(cs.sps) |-> cs.sps[i].name]

\* C37: the savepoints open on the connection of a thread in a transaction
\* are those of the nested scopes the thread is inside (as long as the
\* connection is that thread's alone).
C37_OpenSavepointsAreOpenScopes ==
    \A t \in Threads :
        (InTransaction(t) /\ exc[t] = "none" /\ ~foreignUse /\ ~Foreign(t, localConn[t]))
            => OpenNames(conns[localConn[t]]) = ScopeNames(t)

\* C39: once a configuration is set up, no statement a thread issues is
\* directed at a connection that close() has closed.
C39_NoUseOfClosedConnection ==
    [][\A t \in Threads :
          (Use(t) /\ ~Unconfigured /\ CurrentConnection(t).err = "none")
              => ~Dead(CurrentConnection(t).conn)]_vars

\* The step with which a create() call fails after its column stage: a
\* before-hook raised, or the INSERT was rejected.
CreateFails(t) ==
    /\ call[t].op = "create" /\ call[t].pc \in {"before", "stmt", "after"}
    /\ call'[t].pc = "failed"

\* C38: when a create() call fails in a before-hook or in its INSERT, the
\* column it was to add is in no session's work and not in the committed
\* table, and no row of the call is kept.
C38_FailedCreateLeavesNoTrace ==
    [][\A t \in Threads : CreateFails(t) =>
          /\ call[t].changed =>
                /\ call[t].col \notin committed'.cols
                /\ \A c \in ConnIds : call[t].col \notin conns'[c].pending.cols
          /\ call[t].w # 0 =>
                /\ call[t].w \notin committed'.rows
                /\ \A c \in ConnIds : call[t].w \notin conns'[c].pending.rows]_vars

\* No call and no _get_cursor scope is in progress and no transaction is open.
Quiet == \A t \in Threads : Idle(t) /\ op[t] = NoOp /\ ~InTransaction(t)

\* C36: when nothing is in progress, a cache entry of the table lists the
\* columns of the committed table.
C36_CacheMatchesCommittedSchema ==
    (Quiet /\ schemaCache.present) => schemaCache.cols = committed.cols

\* C31: with any sink installed, every operation step is the step the
\* operation takes with no sink: the statement is executed on the same
\* connection with the same outcome, and no exception of the sink propagates.
C31_SinkErrorsSwallowed ==
    /\ [](\A t \in Threads : exc[t] # "SinkError")
    /\ [][\A t \in Threads : LoggedBegin(t) => OpBegin(t)]_vars

\* A statement was executed while a raising sink was installed.
C31_Witness ==
    /\ logger = "raising"
    /\ \E t \in Threads : op[t] # NoOp /\ op[t].w # 0 /\ ~op[t].err /\ exc[t] = "none"

\* C32: a create() that returns loads back, for the submitted field, a value
\* of the type that was submitted.
C32_CreateRoundTrip ==
    (trip.done /\ ~trip.err) => trip.loaded = trip.value
====
